---- MODULE Spec2Model ----
(***************************************************************************)
(* Exit orchestration engine of the play-reels landing pages: the config   *)
(* normalizer, the URL builders, the back-trap built on the session        *)
(* history, the exit runners and the autoexit / reverse state machines.    *)
(*                                                                         *)
(* Modelled from src/unnamed/part_000 (the guarded "FULL" variant, which   *)
(* is the variant spec.md describes).                                      *)
(*                                                                         *)
(* Strings.  A JavaScript string is modelled as the sequence of its        *)
(* lexemes: "" is <<>>, "55" is <<"55">>, " ads.example/" is               *)
(* <<" ", "ads.example", "/">>, "https://x.com/y?foo=baz" is               *)
(* <<"http", "s", "://", "x.com", "/", "y", "?", "foo", "=", "baz">>.      *)
(* Lexing conventions, so that the code's string tests are exact:          *)
(*   - a blank is always the lexeme " "; a slash is always the lexeme "/"; *)
(*   - a string that starts with the letters http has the lexeme "http"    *)
(*     first;                                                              *)
(*   - "://", "?", "&", "=" are lexemes of their own;                      *)
(*   - a number given to parseInt is lexed into its characters             *)
(*     ("10" is <<"1", "0">>, "-1" is <<"-", "1">>).                       *)
(* The values undefined / null are the one value Undefined.                *)
(*                                                                         *)
(* A key of the flat configuration is the sequence of its segments between *)
(* underscores: mainExit_currentTab_zoneId is                              *)
(* <<"mainExit", "currentTab", "zoneId">>.                                 *)
(***************************************************************************)
EXTENDS Integers, Sequences, FiniteSets, TLC

VARIABLES
    appCfg,            \* window.APP_CONFIG: the flat configuration, a sequence of <<key, value>>
    cfg,               \* the exit table normalizeConfig returned at boot
    curUrl,            \* const curUrl: the page URL captured when the script started
    env,               \* the environment of this page view: timezone name and offset, cmeta
                       \* blob, the tracking sink (window.syncMetric) and the history API
    osVersionCached,   \* let osVersionCached
    hist,              \* the session history: a sequence of entries [st, url, doc]
    cur,               \* index in hist of the current entry (window.location is hist[cur].url)
    alive,             \* FALSE once the document has been unloaded by a navigation
    navTarget,         \* the URL of the navigation that is pending (replaceTo was called)
    visible,           \* document.visibilityState === "visible"
    aeTimer,           \* the autoexit timer: "none", "pending", "fired", "cleared"
    armed,             \* let armed of initAutoexit
    visListener,       \* the visibilitychange listener (trigger) is registered
    cancelOn,          \* the events whose once-listener (cancel) is still registered
    revListener,       \* the popstate listener of initReverse is registered
    backInstalled,     \* window.__BACK_POPSTATE_INSTALLED__
    backNavInProgress, \* window.__BACK_NAV_IN_PROGRESS__
    timers,            \* the pending setTimeout(() => replaceTo(url), 40) calls, oldest first
    runs,              \* one record per exit run started, in order
    log,               \* the observable effects, in order
    pure               \* input and result of the pure function under check (SpecNorm, SpecUrl)

vars == <<appCfg, cfg, curUrl, env, osVersionCached, hist, cur, alive, navTarget,
          visible, aeTimer, armed, visListener, cancelOn, revListener,
          backInstalled, backNavInProgress, timers, runs, log, pure>>

----------------------------------------------------------------------------
(* Strings *)

Undefined == <<"<undefined>">>

\* JavaScript truthiness of a string or undefined
Truthy(v) == v # Undefined /\ v # <<>>

\* a || b
Or(a, b) == IF Truthy(a) THEN a ELSE b

\* String(v)
String(v) == IF v = Undefined THEN <<"undefined">> ELSE v

Last(s) == s[Len(s)]

DropLast(s) == SubSeq(s, 1, Len(s) - 1)

\* first index of lexeme t in s, 0 when absent
IndexOf(s, t) ==
    IF \E i \in 1..Len(s) : s[i] = t
    THEN CHOOSE i \in 1..Len(s) : s[i] = t /\ \A j \in 1..(i - 1) : s[j] # t
    ELSE 0

RECURSIVE trimStart(_)
trimStart(s) == IF s # <<>> /\ s[1] = " " THEN trimStart(Tail(s)) ELSE s

RECURSIVE trimEnd(_)
trimEnd(s) == IF s # <<>> /\ Last(s) = " " THEN trimEnd(DropLast(s)) ELSE s

\* String.prototype.trim
trim(s) == trimEnd(trimStart(s))

\* s.replace(/\/+$/, "")
RECURSIVE stripTrailingSlashes(_)
stripTrailingSlashes(s) ==
    IF s # <<>> /\ Last(s) = "/" THEN stripTrailingSlashes(DropLast(s)) ELSE s

Digits == {"0", "1", "2", "3", "4", "5", "6", "7", "8", "9"}

DigitVal(d) == CASE d = "0" -> 0 [] d = "1" -> 1 [] d = "2" -> 2 [] d = "3" -> 3
                 [] d = "4" -> 4 [] d = "5" -> 5 [] d = "6" -> 6 [] d = "7" -> 7
                 [] d = "8" -> 8 [] d = "9" -> 9

RECURSIVE digitsPrefix(_, _)
digitsPrefix(s, acc) ==
    IF s # <<>> /\ s[1] \in Digits
    THEN digitsPrefix(Tail(s), [n |-> acc.n * 10 + DigitVal(s[1]), any |-> TRUE])
    ELSE acc

\* parseInt(v, 10) || 0: leading blanks skipped, an optional sign, the longest
\* prefix of digits; NaN (no digit) is falsy and gives 0.
parseIntOr0(v) ==
    LET s    == trimStart(String(v))
        neg  == s # <<>> /\ s[1] = "-"
        body == IF s # <<>> /\ s[1] \in {"-", "+"} THEN Tail(s) ELSE s
        r    == digitsPrefix(body, [n |-> 0, any |-> FALSE])
    IN  IF ~r.any THEN 0 ELSE IF neg THEN 0 - r.n ELSE r.n

Max(a, b) == IF a >= b THEN a ELSE b

----------------------------------------------------------------------------
(* URLs and URLSearchParams *)

\* Host names new URL() rejects
InvalidHosts == {"bad host"}

UrlEmpty == [kind |-> "empty", scheme |-> "", host |-> "", path |-> <<>>, query |-> <<>>, raw |-> <<>>]

\* the value of a call that threw
Thrown == [kind |-> "throw", scheme |-> "", host |-> "", path |-> <<>>, query |-> <<>>, raw |-> <<>>]

MkUrl(scheme, host, path, query) ==
    [kind |-> "url", scheme |-> scheme, host |-> host,
     path |-> IF path = <<>> THEN <<"/">> ELSE path, query |-> query, raw |-> <<>>]

\* a string that is not a parsed URL (buildDirectUrlWithTracking's fallback)
RawUrl(s) == [kind |-> "raw", scheme |-> "", host |-> "", path |-> <<>>, query |-> <<>>, raw |-> s]

\* the segments of s between occurrences of sep
RECURSIVE splitOn(_, _)
splitOn(s, sep) ==
    LET i == IndexOf(s, sep)
    IN  IF i = 0 THEN <<s>>
        ELSE <<SubSeq(s, 1, i - 1)>> \o splitOn(SubSeq(s, i + 1, Len(s)), sep)

\* one name=value segment of a query string
queryPair(seg) ==
    LET i == IndexOf(seg, "=")
    IN  IF i = 0 THEN <<seg[1], <<>>>>
        ELSE <<IF i = 1 THEN "" ELSE seg[1], SubSeq(seg, i + 1, Len(seg))>>

RECURSIVE pairsOf(_)
pairsOf(segs) ==
    IF segs = <<>> THEN <<>>
    ELSE IF segs[1] = <<>> THEN pairsOf(Tail(segs))
    ELSE <<queryPair(segs[1])>> \o pairsOf(Tail(segs))

\* new URLSearchParams(text): the list of <<name, value>> pairs
parseQuery(toks) == IF toks = <<>> THEN <<>> ELSE pairsOf(splitOn(toks, "&"))

\* the path up to and including its last slash
RECURSIVE dirOf(_)
dirOf(p) == IF p = <<>> \/ Last(p) = "/" THEN p ELSE dirOf(DropLast(p))

\* new URL(s, base) when hasBase, new URL(s) otherwise; Thrown for a TypeError
parseUrl(s, base, hasBase) ==
    LET q      == IndexOf(s, "?")
        front  == IF q = 0 THEN s ELSE SubSeq(s, 1, q - 1)
        query  == IF q = 0 THEN <<>> ELSE parseQuery(SubSeq(s, q + 1, Len(s)))
        secure == Len(front) >= 3 /\ front[1] = "http" /\ front[2] = "s" /\ front[3] = "://"
        plain  == Len(front) >= 2 /\ front[1] = "http" /\ front[2] = "://"
        rest   == IF secure THEN SubSeq(front, 4, Len(front))
                  ELSE IF plain THEN SubSeq(front, 3, Len(front)) ELSE <<>>
    IN  IF secure \/ plain
        THEN IF rest = <<>> \/ rest[1] = "/" \/ rest[1] \in InvalidHosts
             THEN Thrown
             ELSE MkUrl(IF secure THEN "https" ELSE "http", rest[1], Tail(rest), query)
        ELSE IF ~hasBase THEN Thrown
        ELSE IF front = <<>>
             THEN MkUrl(base.scheme, base.host, base.path, IF q = 0 THEN base.query ELSE query)
        ELSE IF front[1] = "/"
             THEN MkUrl(base.scheme, base.host, front, query)
        ELSE MkUrl(base.scheme, base.host, dirOf(base.path) \o front, query)

\* URLSearchParams.has
spHas(q, k) == \E i \in 1..Len(q) : q[i][1] = k

\* URLSearchParams.get: the first value, Undefined (null) when absent
spGet(q, k) ==
    IF spHas(q, k)
    THEN q[CHOOSE i \in 1..Len(q) : q[i][1] = k /\ \A j \in 1..(i - 1) : q[j][1] # k][2]
    ELSE Undefined

\* URLSearchParams.set: the first pair named k takes the value, the others are
\* removed; appended when there is none
spSet(q, k, v) ==
    IF spHas(q, k)
    THEN LET first == CHOOSE i \in 1..Len(q) : q[i][1] = k /\ \A j \in 1..(i - 1) : q[j][1] # k
             keep  == {i \in 1..Len(q) : q[i][1] # k \/ i = first}
             F[i \in 0..Len(q)] ==
                 IF i = 0 THEN <<>>
                 ELSE IF i \notin keep THEN F[i - 1]
                 ELSE Append(F[i - 1], IF i = first THEN <<k, v>> ELSE q[i])
         IN  F[Len(q)]
    ELSE Append(q, <<k, v>>)

----------------------------------------------------------------------------
(* Parameter snapshot *)

\* value of key in the flat configuration a (window.APP_CONFIG), Undefined when
\* a is undefined or has no such key
appCfgGet(a, key) ==
    IF a = Undefined \/ ~\E i \in 1..Len(a) : a[i][1] = key THEN Undefined
    ELSE a[CHOOSE i \in 1..Len(a) : a[i][1] = key][2]

\* getSP(k, def) = curUrl.searchParams.get(k) ?? def
getSP(k, def) ==
    LET v == spGet(curUrl.query, k) IN IF v = Undefined THEN def ELSE v

\* IN[k] (IN is a reserved word here): every field is getSP(k), rhd is getSP("rhd", "1")
INfield(k) == getSP(k, IF k = "rhd" THEN <<"1">> ELSE <<>>)

\* a qsFromObj that keeps the entries with an empty value
qsFromObj_keepsEmpty(obj) ==
    LET F[i \in 0..Len(obj)] ==
            IF i = 0 THEN <<>>
            ELSE IF obj[i][2] # Undefined
                 THEN spSet(F[i - 1], obj[i][1], String(obj[i][2]))
                 ELSE F[i - 1]
    IN  F[Len(obj)]

\* qsFromObj: the entries of obj whose value is neither null nor "", in order
qsFromObj(obj) ==
    LET F[i \in 0..Len(obj)] ==
            IF i = 0 THEN <<>>
            ELSE IF obj[i][2] # Undefined /\ String(obj[i][2]) # <<>>
                 THEN spSet(F[i - 1], obj[i][1], String(obj[i][2]))
                 ELSE F[i - 1]
    IN  F[Len(obj)]

----------------------------------------------------------------------------
(* Config normalizer *)

NoTab == [obj |-> FALSE, zoneId |-> Undefined, url |-> Undefined, domain |-> Undefined]

NoExit == [obj |-> FALSE, currentTab |-> NoTab, newTab |-> NoTab,
           count |-> Undefined, timeToRedirect |-> Undefined, pageUrl |-> Undefined]

NewExit == [NoExit EXCEPT !.obj = TRUE]

\* normalizeConfig returned null
NullCfg == [res |-> "null", domain |-> Undefined, exits |-> <<>>]

\* Segments the class [a-zA-Z0-9]+ does not match
NonAlnumSegs == {"", "my-exit"}

IsAlnum(seg) == seg \notin NonAlnumSegs

\* cfg?.[name] for an exit name: the entry of the table, NoExit when there is
\* none (cfg.domain is a string: it has no currentTab and no newTab)
ExitOf(c, name) ==
    IF c.res = "cfg" /\ name \in DOMAIN c.exits THEN c.exits[name] ELSE NoExit

\* const ensure = (name) => (cfg[name] ||= {})
ensure(c, name) ==
    IF name \in DOMAIN c.exits THEN c
    ELSE [c EXCEPT !.exits = [n \in DOMAIN c.exits \cup {name} |->
                                 IF n = name THEN NewExit ELSE c.exits[n]]]

\* (ex[tab] ||= {}).domain = field === "zoneId" ? cfg.domain : ex[tab].domain;
\* ex[tab][field] = v.
\* ensure("domain") is cfg.domain, a string: creating a property on it is a
\* TypeError under "use strict", which leaves normalizeConfig.
setTabField(c, name, tab, field, v) ==
    IF name = "domain" THEN [c EXCEPT !.res = "TypeError"]
    ELSE LET c1  == ensure(c, name)
             old == c1.exits[name][tab]
             t1  == [old EXCEPT !.obj = TRUE,
                                !.domain = IF field = "zoneId" THEN c.domain ELSE old.domain]
             t2  == [t1 EXCEPT ![field] = v]
         IN  [c1 EXCEPT !.exits[name][tab] = t2]

\* ensure(m[1])[m[2]] = v
setFlatField(c, name, field, v) ==
    IF name = "domain" THEN [c EXCEPT !.res = "TypeError"]
    ELSE [ensure(c, name) EXCEPT !.exits[name][field] = v]

\* the body of the forEach callback for one entry [k, v]
normalizeEntry(c, k, v) ==
    IF c.res # "cfg" THEN c
    ELSE IF v = Undefined \/ v = <<>> \/ k = <<"domain">> THEN c
    ELSE IF Len(k) = 3 /\ IsAlnum(k[1]) /\ k[2] \in {"currentTab", "newTab"}
            /\ k[3] \in {"zoneId", "url"}
         THEN setTabField(c, k[1], k[2], k[3], v)
    ELSE IF Len(k) = 2 /\ IsAlnum(k[1]) /\ k[2] \in {"count", "timeToRedirect", "pageUrl"}
         THEN setFlatField(c, k[1], k[2], v)
    ELSE IF Len(k) = 2 /\ IsAlnum(k[1]) /\ k[2] \in {"zoneId", "url"}
         THEN setTabField(c, k[1],
                          IF k[1] = "tabUnderClick" THEN "newTab" ELSE "currentTab", k[2], v)
    ELSE c

\* a normalizer without the check of appCfg and appCfg.domain
normalizeConfig_unchecked(a) ==
    LET F[i \in 0..Len(a)] ==
            IF i = 0
            THEN [res |-> "cfg", domain |-> Undefined, exits |-> <<>>]
            ELSE normalizeEntry(F[i - 1], a[i][1], a[i][2])
    IN  IF a = Undefined THEN [res |-> "cfg", domain |-> Undefined, exits |-> <<>>]
        ELSE [F[Len(a)] EXCEPT !.domain = appCfgGet(a, <<"domain">>)]

\* normalizeConfig(appCfg): res is "cfg" (the table), "null" or "TypeError"
normalizeConfig(a) ==
    IF a = Undefined \/ ~Truthy(appCfgGet(a, <<"domain">>)) THEN NullCfg
    ELSE LET F[i \in 0..Len(a)] ==
                 IF i = 0
                 THEN [res |-> "cfg", domain |-> appCfgGet(a, <<"domain">>), exits |-> <<>>]
                 ELSE normalizeEntry(F[i - 1], a[i][1], a[i][2])
         IN  F[Len(a)]

----------------------------------------------------------------------------
(* URL builders *)

\* buildExitQSFast({ zoneId })
buildExitQSFast(zoneId) ==
    LET abtest == appCfgGet(appCfg, <<"abtest">>)
        ab2r   == Or(INfield("abtest"), IF abtest # Undefined THEN String(abtest) ELSE <<>>)
        base   == << <<"ymid", Or(Or(INfield("var_1"), INfield("var")), <<>>)>>,
                     <<"var", Or(Or(INfield("var_2"), INfield("z")), <<>>)>>,
                     <<"var_3", Or(INfield("var_3"), <<>>)>>,
                     <<"b", Or(INfield("b"), <<>>)>>,
                     <<"campaignid", Or(INfield("campaignid"), <<>>)>>,
                     <<"click_id", Or(INfield("s"), <<>>)>>,
                     <<"rhd", Or(INfield("rhd"), <<"1">>)>>,
                     <<"os_version", Or(osVersionCached, <<>>)>>,
                     <<"btz", env.btz>>,
                     <<"bto", env.bto>>,
                     <<"cmeta", env.cmeta>>,
                     <<"pz", Or(INfield("pz"), <<>>)>>,
                     <<"tb", Or(INfield("tb"), <<>>)>>,
                     <<"tb_reverse", Or(INfield("tb_reverse"), <<>>)>>,
                     <<"ae", Or(INfield("ae"), <<>>)>>,
                     <<"ab2r", ab2r>>,
                     <<"external_id", Or(INfield("external_id"), <<>>)>>,
                     <<"creative_id", Or(INfield("creative_id"), <<>>)>>,
                     <<"ad_campaign_id", Or(INfield("ad_campaign_id"), <<>>)>>,
                     <<"cost", Or(INfield("cost"), <<>>)>> >>
        withZ  == IF zoneId # Undefined /\ String(zoneId) # <<>>
                  THEN Append(base, <<"zoneid", String(zoneId)>>) ELSE base
    IN  qsFromObj(withZ)

\* generateAfuUrlFast(zoneId, domain)
generateAfuUrlFast(zoneId, domain) ==
    LET host == trim(String(Or(domain, <<>>)))
        base == IF host # <<>> /\ host[1] = "http" THEN host ELSE <<"http", "s", "://">> \o host
        url  == parseUrl(stripTrailingSlashes(base) \o <<"/", "afu.php">>, UrlEmpty, FALSE)
    IN  IF host = <<>> THEN UrlEmpty
        ELSE IF url.kind = "throw" THEN Thrown
        ELSE [url EXCEPT !.query = buildExitQSFast(zoneId)]

\* a passthrough loop that also overwrites the keys the target defines
passthrough_overwrites(q, entries) ==
    LET F[i \in 0..Len(entries)] ==
            IF i = 0 THEN q
            ELSE IF entries[i][2] # <<>>
                 THEN spSet(F[i - 1], entries[i][1], entries[i][2])
                 ELSE F[i - 1]
    IN  F[Len(entries)]

\* the passthrough loop: for (const [k, v] of curUrl.searchParams.entries())
passthrough(q, entries) ==
    LET F[i \in 0..Len(entries)] ==
            IF i = 0 THEN q
            ELSE IF ~spHas(F[i - 1], entries[i][1]) /\ entries[i][2] # <<>>
                 THEN spSet(F[i - 1], entries[i][1], entries[i][2])
                 ELSE F[i - 1]
    IN  F[Len(entries)]

SetIf(q, cond, k, v) == IF cond THEN spSet(q, k, v) ELSE q

\* buildDirectUrlWithTracking(baseUrl), loc being window.location.href
buildDirectUrlWithTracking(baseUrl, loc) ==
    LET u              == parseUrl(String(baseUrl), loc, TRUE)
        external_id    == Or(INfield("external_id"), <<>>)
        ad_campaign_id == Or(Or(INfield("ad_campaign_id"), INfield("var_2")), <<>>)
        creative_id    == Or(INfield("creative_id"), <<>>)
        cost           == Or(Or(INfield("cost"), INfield("b")), <<>>)
        q0 == passthrough(u.query, curUrl.query)
        q1 == SetIf(q0, Truthy(cost), "cost", cost)
        q2 == SetIf(q1, ~spHas(q1, "currency"), "currency", <<"usd">>)
        q3 == SetIf(q2, Truthy(external_id), "external_id", external_id)
        q4 == SetIf(q3, Truthy(creative_id), "creative_id", creative_id)
        q5 == SetIf(q4, Truthy(ad_campaign_id), "ad_campaign_id", ad_campaign_id)
    IN  IF u.kind = "throw" THEN RawUrl(String(Or(baseUrl, <<>>)))
        ELSE [u EXCEPT !.query = q5]

\* resolveUrlFast(ex, cfg): UrlEmpty is "", Thrown an exception leaving it
resolveUrlFast(ex, c, loc) ==
    IF ~ex.obj THEN UrlEmpty
    ELSE IF Truthy(ex.url) THEN buildDirectUrlWithTracking(ex.url, loc)
    ELSE IF Truthy(ex.zoneId) /\ Truthy(Or(ex.domain, c.domain))
         THEN generateAfuUrlFast(ex.zoneId, Or(ex.domain, c.domain))
    ELSE UrlEmpty

----------------------------------------------------------------------------
(* Effects, runs and the state a handler works on *)

\* Bound: exit runs and explicit armings started in one page lifetime
MaxRuns == 2

\* Bound: the environment refuses at most the MaxRefuseAt-th pushState call of a handler
MaxRefuseAt == 2

\* one observable effect: e is "track", "open", "listen", "push", "timer" or "replace"
Effect(e, run, name, zone, url, n) ==
    [e |-> e, run |-> run, name |-> name, zone |-> zone, url |-> url, n |-> n]

\* The state a handler reads and writes, threaded through the calls it makes;
\* exc is set while an exception is propagating out of the handler
Heap == [hist |-> hist, cur |-> cur, log |-> log, timers |-> timers, runs |-> runs,
         backInstalled |-> backInstalled, backNavInProgress |-> backNavInProgress,
         navTarget |-> navTarget, exc |-> FALSE]

Commit(s) ==
    /\ hist' = s.hist
    /\ cur' = s.cur
    /\ log' = s.log
    /\ timers' = s.timers
    /\ runs' = s.runs
    /\ backInstalled' = s.backInstalled
    /\ backNavInProgress' = s.backNavInProgress
    /\ navTarget' = s.navTarget

\* window.location of heap s
Loc(s) == s.hist[s.cur].url

\* The environments of a page view:
\*   sink      window.syncMetric is "absent", "ok" or "throws"
\*   refuseAt  the pushState call of a handler that throws (0: none)
SinkModes == {"absent", "ok", "throws"}

\* window.history.pushState(state, title, url)
pushState(s, st, url) ==
    [s EXCEPT !.hist = Append(SubSeq(s.hist, 1, s.cur), [st |-> st, url |-> url, doc |-> "this"]),
              !.cur = s.cur + 1]

\* replaceTo(url): location.replace(url), the navigation is then pending
replaceTo(s, url, r) ==
    [s EXCEPT !.log = Append(s.log, Effect("replace", r, "", <<>>, url, 0)),
              !.navTarget = url]

\* openTab(url): window.open(url, "_blank")
openTab(s, url, r) ==
    [s EXCEPT !.log = Append(s.log, Effect("open", r, "", <<>>, url, 0))]

\* setTimeout(() => replaceTo(url), 40)
setNavTimeout(s, url, r) ==
    [s EXCEPT !.log = Append(s.log, Effect("timer", r, "", <<>>, url, 0)),
              !.timers = Append(s.timers, [url |-> url, run |-> r])]

\* safe(() => { window.syncMetric?.({ event: name, exitZoneId }) ... }) for the
\* calls in zones, in order: nothing is called when the sink is absent, and a
\* call that throws (n = 1) ends the safe block
syncMetric(s, name, zones, r) ==
    LET made == IF env.sink = "absent" THEN 0
                ELSE IF env.sink = "throws" /\ zones # <<>> THEN 1 ELSE Len(zones)
        F[i \in 0..made] ==
            IF i = 0 THEN s.log
            ELSE Append(F[i - 1], Effect("track", r, name, zones[i], UrlEmpty,
                                         IF env.sink = "throws" THEN 1 ELSE 0))
    IN  [s EXCEPT !.log = F[made]]

----------------------------------------------------------------------------
(* Back-trap *)

\* lower case of a path segment, for the /i patterns
LowerCase(t) == CASE t \in {"Back.html", "BACK.HTML"} -> "back.html"
                  [] t \in {"Index.html", "INDEX.HTML"} -> "index.html"
                  [] OTHER -> t

\* /\/back\.html$/i.test(pathname)
isBackPath(path) ==
    Len(path) >= 2 /\ path[Len(path) - 1] = "/" /\ LowerCase(Last(path)) = "back.html"

\* pushBackStates(url, count): n entries tagged __bk at url, then the anchor at
\* the original location; the first refused pushState ends it (caught, logged)
pushBackStates(s, url, count, r) ==
    LET n           == Max(0, parseIntOr0(count))
        originalUrl == Loc(s)
        done        == IF env.refuseAt = 0 \/ env.refuseAt > n + 1 THEN n + 1
                       ELSE env.refuseAt - 1
        F[i \in 0..done] ==
            IF i = 0 THEN s
            ELSE IF i <= n THEN pushState(F[i - 1], "bk", url)
            ELSE pushState(F[i - 1], "anchor", originalUrl)
    IN  [F[done] EXCEPT !.log = Append(s.log, Effect("push", r, "", <<>>, url, done))]

\* getDefaultBackHtmlUrl()
getDefaultBackHtmlUrl(loc) ==
    LET p    == loc.path
        dir0 == IF Len(p) >= 2 /\ p[Len(p) - 1] = "/"
                   /\ LowerCase(Last(p)) \in {"index.html", "back.html"}
                THEN SubSeq(p, 1, Len(p) - 2) ELSE p
        dir  == IF dir0 # <<>> /\ Last(dir0) = "/" THEN DropLast(dir0) ELSE dir0
    IN  MkUrl(loc.scheme, loc.host, dir \o <<"/", "back.html">>, <<>>)

\* an arming that adds a popstate listener whatever the installed flag says
ensureBackPopstateHandler_unguarded(s) ==
    [s EXCEPT !.backInstalled = TRUE,
              !.log = Append(s.log, Effect("listen", Len(s.runs), "popstate", <<>>, UrlEmpty, 0))]

\* ensureBackPopstateHandler(): returns when __BACK_POPSTATE_INSTALLED__ is set,
\* else sets it and adds the popstate listener (effect "listen")
ensureBackPopstateHandler(s) ==
    IF s.backInstalled THEN s
    ELSE [s EXCEPT !.backInstalled = TRUE,
                   !.log = Append(s.log, Effect("listen", Len(s.runs), "popstate", <<>>,
                                                UrlEmpty, 0))]

\* a back listener without the __BACK_NAV_IN_PROGRESS__ guard
backPopstateHandler_noLatch(s, st) ==
    IF ~(st = "bk" \/ isBackPath(Loc(s).path)) THEN s
    ELSE replaceTo([s EXCEPT !.backNavInProgress = TRUE], Loc(s), 0)

\* the popstate listener ensureBackPopstateHandler installs, st being e.state
backPopstateHandler(s, st) ==
    LET isBk      == st = "bk"
        isBackUrl == isBackPath(Loc(s).path)
    IN  IF ~(isBk \/ isBackUrl) THEN s
        ELSE IF s.backNavInProgress THEN s
        ELSE replaceTo([s EXCEPT !.backNavInProgress = TRUE], Loc(s), 0)

\* the redirect-page URL initBackFast builds: Thrown when new URL(pageUrl) throws
backPageUrl(c, loc) ==
    LET back == ExitOf(c, "back")
        b    == back.currentTab
        page == IF Truthy(back.pageUrl) THEN parseUrl(String(back.pageUrl), loc, TRUE)
                ELSE getDefaultBackHtmlUrl(loc)
        qs   == buildExitQSFast(b.zoneId)
        qs1  == IF Truthy(b.url) THEN spSet(qs, "url", String(b.url))
                ELSE spSet(spSet(qs, "z", String(b.zoneId)),
                           "domain", String(Or(Or(b.domain, c.domain), <<>>)))
    IN  IF page.kind = "throw" THEN Thrown ELSE [page EXCEPT !.query = qs1]

\* const count = cfg.back?.count ?? 10
backCount(c) ==
    IF ExitOf(c, "back").count = Undefined THEN <<"1", "0">> ELSE ExitOf(c, "back").count

\* initBackFast(cfg)
initBackFast(s, c, r) ==
    LET s1   == ensureBackPopstateHandler(s)
        page == backPageUrl(c, Loc(s))
    IN  IF ~ExitOf(c, "back").currentTab.obj THEN s
        ELSE IF page.kind = "throw" THEN [s1 EXCEPT !.exc = TRUE]
        ELSE pushBackStates(s1, page, backCount(c), r)

----------------------------------------------------------------------------
(* Exit runners *)

\* bookkeeping: a run of exit name has started (src: "api", "autoexit",
\* "reverse"; kind "arm" is a call of LANDING_EXITS.initBack())
startRun(s, name, kind, withBack, src) ==
    [s EXCEPT !.runs = Append(s.runs, [name |-> name, kind |-> kind,
                                       withBack |-> withBack, src |-> src])]

\* if (withBack) { initBackFast(cfg); setTimeout(() => replaceTo(url), 40); }
\* once initBackFast has returned heap s2: an exception it threw propagates
thenNavTimeout(s2, url, r) == IF s2.exc THEN s2 ELSE setNavTimeout(s2, url, r)

\* a single-tab runner that emits its tracking event after the navigation step
currentTabExit_trackLast(s0, c, name, withBack, ex, url, r) ==
    IF ~ex.obj THEN s0
    ELSE IF url.kind = "throw" THEN [s0 EXCEPT !.exc = TRUE]
    ELSE IF url.kind = "empty" THEN s0
    ELSE syncMetric(IF withBack THEN thenNavTimeout(initBackFast(s0, c, r), url, r)
                    ELSE replaceTo(s0, url, r),
                    name, <<Or(ex.zoneId, ex.url)>>, r)

\* runExitCurrentTabFast from its target ex and the URL it resolved to, s0 being
\* the heap at the call
currentTabExit(s0, c, name, withBack, ex, url, r) ==
    IF ~ex.obj THEN s0
    ELSE IF url.kind = "throw" THEN [s0 EXCEPT !.exc = TRUE]
    ELSE IF url.kind = "empty" THEN s0
    ELSE IF withBack
         THEN thenNavTimeout(initBackFast(syncMetric(s0, name, <<Or(ex.zoneId, ex.url)>>, r), c, r),
                             url, r)
         ELSE replaceTo(syncMetric(s0, name, <<Or(ex.zoneId, ex.url)>>, r), url, r)

\* runExitCurrentTabFast(cfg, name, withBack)
runExitCurrentTabFast(s, c, name, withBack, src) ==
    currentTabExit(startRun(s, name, "single", withBack, src), c, name, withBack,
                   ExitOf(c, name).currentTab,
                   resolveUrlFast(ExitOf(c, name).currentTab, c, Loc(s)),
                   Len(s.runs) + 1)

\* the exitZoneId values of the syncMetric calls of runExitDualTabsFast
dualZones(ct, nt, ctUrl, ntUrl) ==
    (IF ctUrl.kind # "empty" THEN <<Or(ct.zoneId, ct.url)>> ELSE <<>>)
    \o (IF ntUrl.kind # "empty" THEN <<Or(nt.zoneId, nt.url)>> ELSE <<>>)

\* if (ntUrl) openTab(ntUrl)
openIf(s1, ntUrl, r) == IF ntUrl.kind # "empty" THEN openTab(s1, ntUrl, r) ELSE s1

\* if (withBack) initBackFast(cfg)
backIf(s2, c, withBack, r) == IF withBack THEN initBackFast(s2, c, r) ELSE s2

\* a dual-tab runner that schedules the current-tab navigation whatever ctUrl is
navTimeoutIf_unguarded(s3, ctUrl, r) ==
    IF s3.exc THEN s3 ELSE setNavTimeout(s3, ctUrl, r)

\* if (ctUrl) setTimeout(() => replaceTo(ctUrl), 40)
navTimeoutIf(s3, ctUrl, r) ==
    IF s3.exc THEN s3
    ELSE IF ctUrl.kind # "empty" THEN setNavTimeout(s3, ctUrl, r)
    ELSE s3

\* a dual-tab runner that arms the trap before it opens the tab
dualTabsExit_armFirst(s0, c, name, withBack, ex, ctUrl, ntUrl, r) ==
    IF ~ex.obj THEN s0
    ELSE IF ctUrl.kind = "throw" \/ ntUrl.kind = "throw" THEN [s0 EXCEPT !.exc = TRUE]
    ELSE navTimeoutIf(
             openIf(backIf(syncMetric(s0, name,
                                      dualZones(ex.currentTab, ex.newTab, ctUrl, ntUrl), r),
                           c, withBack, r),
                    ntUrl, r),
             ctUrl, r)

\* runExitDualTabsFast from the exit ex and the URLs its targets resolved to,
\* s0 being the heap at the call
dualTabsExit(s0, c, name, withBack, ex, ctUrl, ntUrl, r) ==
    IF ~ex.obj THEN s0
    ELSE IF ctUrl.kind = "throw" \/ ntUrl.kind = "throw" THEN [s0 EXCEPT !.exc = TRUE]
    ELSE navTimeoutIf(
             backIf(openIf(syncMetric(s0, name,
                                      dualZones(ex.currentTab, ex.newTab, ctUrl, ntUrl), r),
                           ntUrl, r),
                    c, withBack, r),
             ctUrl, r)

\* runExitDualTabsFast(cfg, name, withBack)
runExitDualTabsFast(s, c, name, withBack, src) ==
    dualTabsExit(startRun(s, name, "dual", withBack, src), c, name, withBack,
                 ExitOf(c, name),
                 resolveUrlFast(ExitOf(c, name).currentTab, c, Loc(s)),
                 resolveUrlFast(ExitOf(c, name).newTab, c, Loc(s)),
                 Len(s.runs) + 1)

\* a dispatcher without the tabUnderClick alias
runTarget_noAlias(c, name) == name

\* the exit run(cfg, name) runs: mainExit for tabUnderClick when the table has
\* no tabUnderClick exit
runTarget(c, name) ==
    IF name = "tabUnderClick" /\ ~ExitOf(c, "tabUnderClick").obj THEN "mainExit" ELSE name

\* the runner of exit n: dual-tab when the exit has a newTab target
runExit(s, c, n, src) ==
    IF ExitOf(c, n).newTab.obj
    THEN runExitDualTabsFast(s, c, n, TRUE, src)
    ELSE runExitCurrentTabFast(s, c, n, TRUE, src)

\* run(cfg, name)
run(s, c, name, src) ==
    IF name = "" THEN s ELSE runExit(s, c, runTarget(c, name), src)

----------------------------------------------------------------------------
(* Reverse and autoexit *)

\* initReverse(cfg): the history after it (a refused pushState is swallowed by safe)
initReverse(c, h, refused) ==
    IF ~ExitOf(c, "reverse").currentTab.obj \/ refused THEN h
    ELSE Append(h, [st |-> "rev", url |-> Last(h).url, doc |-> "this"])

\* a reverse listener that runs the exit with the back-trap
reversePopstateHandler_withBack(s, c, st) ==
    IF st = "rev" THEN runExitCurrentTabFast(s, c, "reverse", TRUE, "reverse") ELSE s

\* the popstate listener of initReverse, st being e.state
reversePopstateHandler(s, c, st) ==
    IF st = "rev" THEN runExitCurrentTabFast(s, c, "reverse", FALSE, "reverse") ELSE s

\* initAutoexit(cfg): whether the timer and the listeners are set up
initAutoexit(c) == ExitOf(c, "autoexit").currentTab.obj

\* a trigger that does not look at the visibility of the page
trigger_ignoresVisibility(s, c, isVisible, isArmed) ==
    IF isArmed
    THEN runExitCurrentTabFast(s, c, "autoexit", TRUE, "autoexit")
    ELSE s

\* const trigger = () => { if (visibilityState === "visible" && armed) run... }
trigger(s, c, isVisible, isArmed) ==
    IF isVisible /\ isArmed
    THEN runExitCurrentTabFast(s, c, "autoexit", TRUE, "autoexit")
    ELSE s

----------------------------------------------------------------------------
(* The page: inputs *)

E(key, value) == <<key, value>>

\* https://x.com/y?foo=baz
TargetUrl == <<"http", "s", "://", "x.com", "/", "y", "?", "foo", "=", "baz">>

\* every exit single-tab and resolvable, a trap of 3, reverse and autoexit
CfgFull ==
    << E(<<"domain">>, <<"ads.example">>),
       E(<<"mainExit", "zoneId">>, <<"55">>),
       E(<<"back", "zoneId">>, <<"7">>),
       E(<<"back", "count">>, <<"3">>),
       E(<<"reverse", "zoneId">>, <<"9">>),
       E(<<"autoexit", "zoneId">>, <<"11">>),
       E(<<"autoexit", "timeToRedirect">>, <<"3", "0">>) >>

\* a dual-tab mainExit, a trap with no wait entry
CfgDual ==
    << E(<<"domain">>, <<"ads.example">>),
       E(<<"mainExit", "currentTab", "zoneId">>, <<"55">>),
       E(<<"mainExit", "newTab", "zoneId">>, <<"56">>),
       E(<<"back", "url">>, TargetUrl),
       E(<<"back", "count">>, <<"0">>) >>

\* a mainExit with a newTab only, a trap with the default count
CfgNewTabOnly ==
    << E(<<"domain">>, <<"ads.example">>),
       E(<<"mainExit", "newTab", "url">>, TargetUrl),
       E(<<"back", "zoneId">>, <<"7">>) >>

\* a blank domain: no zone target resolves, a direct target does
CfgBlankDomain ==
    << E(<<"domain">>, <<" ">>),
       E(<<"mainExit", "currentTab", "zoneId">>, <<"55">>),
       E(<<"mainExit", "newTab", "url">>, TargetUrl),
       E(<<"promo", "currentTab", "zoneId">>, <<"58">>),
       E(<<"promo", "newTab", "zoneId">>, <<"59">>),
       E(<<"back", "zoneId">>, <<"7">>),
       E(<<"back", "count">>, <<"1">>),
       E(<<"autoexit", "zoneId">>, <<"11">>) >>

\* a redirect page URL new URL() rejects
CfgBadPage ==
    << E(<<"domain">>, <<"ads.example">>),
       E(<<"mainExit", "url">>, TargetUrl),
       E(<<"back", "zoneId">>, <<"7">>),
       E(<<"back", "count">>, <<"1">>),
       E(<<"back", "pageUrl">>, <<"http", "://">>),
       E(<<"autoexit", "url">>, TargetUrl) >>

\* no back exit; tabUnderClick, a custom exit and a direct reverse exit
CfgNoBack ==
    << E(<<"domain">>, <<"ads.example">>),
       E(<<"mainExit", "zoneId">>, <<"55">>),
       E(<<"tabUnderClick", "zoneId">>, <<"57">>),
       E(<<"promo", "url">>, TargetUrl),
       E(<<"reverse", "url">>, TargetUrl) >>

\* The flat configurations of the page
AppConfigs == {CfgFull, CfgDual, CfgNewTabOnly, CfgBlankDomain, CfgBadPage, CfgNoBack}

\* The names given to LANDING_EXITS.run
RunNames == {"", "mainExit", "tabUnderClick", "back", "autoexit", "reverse", "promo"}

\* https://lp.example/lp/index.html?b=12&foo=bar
PageUrl == MkUrl("https", "lp.example", <<"/", "lp", "/", "index.html">>,
                 << <<"b", <<"12">>>>, <<"foo", <<"bar">>>> >>)

\* the entry of the site the visitor came from
OtherEntry == [st |-> "none", url |-> MkUrl("https", "ref.example", <<"/">>, <<>>), doc |-> "other"]

PageEntry(st) == [st |-> st, url |-> PageUrl, doc |-> "this"]

\* The session history when the script starts: a visit from another site, a
\* reload of the page on the entry a former boot tagged __rev, and a visit of
\* the redirect page
FreshHist == <<OtherEntry, PageEntry("none")>>

\* https://lp.example/lp/back.html?b=12: the redirect page, when it carries the script
BackPageUrl == MkUrl("https", "lp.example", <<"/", "lp", "/", "back.html">>,
                     << <<"b", <<"12">>>> >>)

InitHists == {FreshHist, <<OtherEntry, PageEntry("rev")>>,
              <<OtherEntry, [PageEntry("none") EXCEPT !.url = BackPageUrl]>>}

Events == {"mousemove", "click", "scroll"}

NoPure == [fn |-> "none"]

----------------------------------------------------------------------------
(* The page: boot and the handlers *)

\* boot(): the state once the script has run on configuration a, in history h
\* and environment e
boot(a, h, e) ==
    LET c  == normalizeConfig(a)
        up == c.res = "cfg"
        h1 == IF up THEN initReverse(c, h, e.refuseAt = 1) ELSE h
    IN  /\ appCfg = a
        /\ cfg = c
        /\ curUrl = Last(h).url
        /\ env = e
        /\ osVersionCached = <<>>
        /\ hist = h1
        /\ cur = Len(h1)
        /\ alive = TRUE
        /\ navTarget = UrlEmpty
        /\ visible = TRUE
        /\ aeTimer = IF up /\ initAutoexit(c) THEN "pending" ELSE "none"
        /\ armed = FALSE
        /\ visListener = (up /\ initAutoexit(c))
        /\ cancelOn = IF up /\ initAutoexit(c) THEN Events ELSE {}
        /\ revListener = (up /\ ExitOf(c, "reverse").currentTab.obj)
        /\ backInstalled = FALSE
        /\ backNavInProgress = FALSE
        /\ timers = <<>>
        /\ runs = <<>>
        /\ log = <<>>
        /\ pure = NoPure

Envs == [btz : {<<"UTC">>}, bto : {<<"0">>}, cmeta : {<<"e30">>},
         sink : SinkModes, refuseAt : 0..MaxRefuseAt]

\* the environment in which the sink works and no pushState is refused
CalmEnv == [btz |-> <<"UTC">>, bto |-> <<"0">>, cmeta |-> <<"e30">>,
            sink |-> "ok", refuseAt |-> 0]

Init == \E a \in AppConfigs, h \in InitHists, e \in Envs : boot(a, h, e)

\* a handler ends: its writes are kept, an exception is swallowed by the event loop
Finish(s) == Len(s.runs) <= MaxRuns /\ Commit(s)

\* window.LANDING_EXITS.run(name), also reached from a [data-mt] click
Run(name) ==
    /\ alive /\ cfg.res = "cfg"
    /\ Finish(run(Heap, cfg, name, "api"))
    /\ UNCHANGED <<appCfg, cfg, curUrl, env, osVersionCached, alive, visible, aeTimer,
                   armed, visListener, cancelOn, revListener, pure>>

\* window.LANDING_EXITS.initBack()
InitBack ==
    /\ alive /\ cfg.res = "cfg"
    /\ LET s0 == startRun(Heap, "back", "arm", TRUE, "api")
       IN  Finish(initBackFast(s0, cfg, Len(s0.runs)))
    /\ UNCHANGED <<appCfg, cfg, curUrl, env, osVersionCached, alive, visible, aeTimer,
                   armed, visListener, cancelOn, revListener, pure>>

\* a setTimeout(() => replaceTo(url), 40) callback runs
NavTimerFire ==
    /\ alive /\ timers # <<>>
    /\ Finish(replaceTo([Heap EXCEPT !.timers = Tail(timers)], timers[1].url, timers[1].run))
    /\ UNCHANGED <<appCfg, cfg, curUrl, env, osVersionCached, alive, visible, aeTimer,
                   armed, visListener, cancelOn, revListener, pure>>

\* the autoexit timer elapses: armed = true; trigger()
AutoexitTimer ==
    /\ alive /\ aeTimer = "pending"
    /\ aeTimer' = "fired"
    /\ armed' = TRUE
    /\ Finish(trigger(Heap, cfg, visible, TRUE))
    /\ UNCHANGED <<appCfg, cfg, curUrl, env, osVersionCached, alive, visible,
                   visListener, cancelOn, revListener, pure>>

\* the page is hidden or shown and the visibilitychange listener (trigger) runs
VisibilityChange ==
    /\ alive /\ visListener
    /\ visible' = ~visible
    /\ Finish(trigger(Heap, cfg, ~visible, armed))
    /\ UNCHANGED <<appCfg, cfg, curUrl, env, osVersionCached, alive, aeTimer, armed,
                   visListener, cancelOn, revListener, pure>>

\* a cancel that removes the listener but leaves the timer running
cancel_keepsTimer ==
    /\ aeTimer' = aeTimer
    /\ visListener' = FALSE

\* const cancel = () => { clearTimeout(timer); removeEventListener(...) }
cancel ==
    /\ aeTimer' = IF aeTimer = "pending" THEN "cleared" ELSE aeTimer
    /\ visListener' = FALSE

\* a mousemove, click or scroll reaches its once-listener, which runs cancel()
\* and is removed
Interaction(ev) ==
    /\ alive /\ ev \in cancelOn
    /\ cancelOn' = cancelOn \ {ev}
    /\ cancel
    /\ UNCHANGED <<appCfg, cfg, curUrl, env, osVersionCached, hist, cur, alive, navTarget,
                   visible, armed, revListener, backInstalled, backNavInProgress, timers,
                   runs, log, pure>>

\* the back listener, when installed, on heap s1
backListener(s1, st) == IF s1.backInstalled THEN backPopstateHandler(s1, st) ELSE s1

\* a popstate event with e.state = st: the listeners run in the order they
\* were registered (initReverse at boot, the back listener at the first arming)
popstate(s, st) ==
    backListener(IF revListener
                 THEN [reversePopstateHandler(s, cfg, st) EXCEPT !.exc = FALSE] ELSE s,
                 st)

\* the visitor goes one entry back: a traversal inside the document fires
\* popstate, one to another document unloads the page
Back ==
    /\ alive /\ cur > 1
    /\ IF hist[cur - 1].doc = "this"
       THEN /\ Finish(popstate([Heap EXCEPT !.cur = cur - 1], hist[cur - 1].st))
            /\ UNCHANGED alive
       ELSE /\ alive' = FALSE
            /\ cur' = cur - 1
            /\ UNCHANGED <<hist, log, timers, runs, backInstalled, backNavInProgress, navTarget>>
    /\ UNCHANGED <<appCfg, cfg, curUrl, env, osVersionCached, visible, aeTimer, armed,
                   visListener, cancelOn, revListener, pure>>

\* the visitor goes one entry forward
Forward ==
    /\ alive /\ cur < Len(hist)
    /\ Finish(popstate([Heap EXCEPT !.cur = cur + 1], hist[cur + 1].st))
    /\ UNCHANGED <<appCfg, cfg, curUrl, env, osVersionCached, alive, visible, aeTimer, armed,
                   visListener, cancelOn, revListener, pure>>

\* the pending navigation commits: the document is unloaded and the current
\* entry is replaced by the new document's
Unload ==
    /\ alive /\ navTarget.kind # "empty"
    /\ alive' = FALSE
    /\ hist' = [hist EXCEPT ![cur] = [st |-> "none", url |-> navTarget, doc |-> "other"]]
    /\ UNCHANGED <<appCfg, cfg, curUrl, env, osVersionCached, cur, navTarget, visible, aeTimer,
                   armed, visListener, cancelOn, revListener, backInstalled,
                   backNavInProgress, timers, runs, log, pure>>

\* getOsVersion().then(v => { osVersionCached = v || "" })
OsVersionResolved ==
    /\ alive /\ osVersionCached = <<>>
    /\ osVersionCached' = <<"10.0">>
    /\ UNCHANGED <<appCfg, cfg, curUrl, env, hist, cur, alive, navTarget, visible, aeTimer,
                   armed, visListener, cancelOn, revListener, backInstalled,
                   backNavInProgress, timers, runs, log, pure>>

\* The page with every visitor and every environment
Next ==
    \/ \E name \in RunNames : Run(name)
    \/ InitBack
    \/ NavTimerFire
    \/ AutoexitTimer
    \/ VisibilityChange
    \/ \E ev \in Events : Interaction(ev)
    \/ Back
    \/ Forward
    \/ Unload
    \/ OsVersionResolved

Spec == Init /\ [][Next]_vars

----------------------------------------------------------------------------
(* Restrictions of Spec to one part of the engine each *)

\* The exit runners: a first visit in every environment; the visitor triggers
\* exits and armings, the timers run, the navigation commits
InitRun == \E a \in AppConfigs, e \in Envs : boot(a, FreshHist, e)

NextRun ==
    \/ \E name \in RunNames : Run(name)
    \/ InitBack
    \/ NavTimerFire
    \/ Unload

SpecRun == InitRun /\ [][NextRun]_vars

\* The back-trap and the reverse exit: the visitor triggers the main exit or an
\* arming and moves through the session history
TrapConfigs == {CfgFull, CfgDual, CfgNoBack}

InitTrap == \E a \in TrapConfigs, h \in InitHists : boot(a, h, CalmEnv)

NextTrap ==
    \/ Run("mainExit")
    \/ InitBack
    \/ Back
    \/ Forward
    \/ NavTimerFire
    \/ Unload

SpecTrap == InitTrap /\ [][NextTrap]_vars

\* Autoexit: the timer, the visibility of the page and the visitor's interactions
AutoConfigs == {CfgFull, CfgBlankDomain, CfgBadPage}

InitAuto == \E a \in AutoConfigs, e \in Envs : boot(a, FreshHist, e)

NextAuto ==
    \/ AutoexitTimer
    \/ VisibilityChange
    \/ \E ev \in Events : Interaction(ev)
    \/ Run("mainExit")
    \/ NavTimerFire
    \/ Unload

SpecAuto == InitAuto /\ [][NextAuto]_vars

\* Boot: pages whose configuration is absent, has no domain or an empty one,
\* next to a configured page; the visitor and the timers do all they can
CfgNoDomain == Tail(CfgFull)

CfgEmptyDomain == <<E(<<"domain">>, <<>>)>> \o Tail(CfgFull)

\* the configured page: a single-tab mainExit, reverse and autoexit, no trap
CfgSmall ==
    << E(<<"domain">>, <<"ads.example">>),
       E(<<"mainExit", "zoneId">>, <<"55">>),
       E(<<"reverse", "zoneId">>, <<"9">>),
       E(<<"autoexit", "zoneId">>, <<"11">>) >>

BootConfigs == {Undefined, <<>>, CfgNoDomain, CfgEmptyDomain, CfgSmall}

InitBoot == \E a \in BootConfigs, h \in InitHists : boot(a, h, CalmEnv)

NextBoot ==
    \/ Run("mainExit")
    \/ InitBack
    \/ NavTimerFire
    \/ AutoexitTimer
    \/ VisibilityChange
    \/ \E ev \in Events : Interaction(ev)
    \/ Back
    \/ Forward
    \/ Unload

SpecBoot == InitBoot /\ [][NextBoot]_vars

----------------------------------------------------------------------------
(* The URL builders on their own *)

\* the parameters a page URL may carry, in the order they appear in its query
QueryParts ==
    << <<"b", <<"12">>>>, <<"foo", <<"bar">>>>, <<"cost", <<"5">>>>,
       <<"currency", <<"eur">>>>, <<"var_2", <<"v2">>>>, <<"z", <<"9">>>>,
       <<"ad_campaign_id", <<"a1">>>>, <<"external_id", <<"e1">>>>,
       <<"creative_id", <<>>>> >>

\* the parts of parts whose index is in m, in order
PickParts(parts, m) ==
    LET F[i \in 0..Len(parts)] ==
            IF i = 0 THEN <<>>
            ELSE IF i \in m THEN Append(F[i - 1], parts[i]) ELSE F[i - 1]
    IN  F[Len(parts)]

PageQueries == {PickParts(QueryParts, m) : m \in SUBSET (1..Len(QueryParts))}

\* https://x.com/y?cost=1&currency=gbp&external_id=t1
TargetWithCost ==
    <<"http", "s", "://", "x.com", "/", "y", "?", "cost", "=", "1", "&",
      "currency", "=", "gbp", "&", "external_id", "=", "t1">>

\* the direct targets of an exit: absolute, relative (/offer?foo=baz) and one
\* new URL() rejects (http://)
Targets == {TargetUrl, TargetWithCost, <<"/", "offer", "?", "foo", "=", "baz">>,
            <<"http", "://">>}

ZoneIds == {<<"55">>}

\* the domains of a zone target: a bare host, one with blanks and a trailing
\* slash, one with a scheme, one new URL() rejects
Domains == {<<"ads.example">>, <<" ", "ads.example", "/", " ">>,
            <<"http", "://", "ads.example">>, <<"bad host">>}

\* a page without and a page with APP_CONFIG.abtest; on the second one the
\* timezone name and the cmeta blob are "" (their computation failed)
UrlPages ==
    { [a |-> <<E(<<"domain">>, <<"ads.example">>)>>, e |-> CalmEnv],
      [a |-> <<E(<<"domain">>, <<"ads.example">>), E(<<"abtest">>, <<"B">>)>>,
       e |-> [CalmEnv EXCEPT !.btz = <<>>, !.cmeta = <<>>]] }

InitUrl ==
    \E q \in PageQueries, p \in UrlPages :
        boot(p.a, <<OtherEntry, [PageEntry("none") EXCEPT !.url.query = q]>>, p.e)

\* buildDirectUrlWithTracking(target) is called
BuildDirect(target) ==
    /\ alive
    /\ pure' = [fn |-> "direct", target |-> target, os |-> osVersionCached,
                r |-> buildDirectUrlWithTracking(target, hist[cur].url)]
    /\ UNCHANGED <<appCfg, cfg, curUrl, env, osVersionCached, hist, cur, alive, navTarget,
                   visible, aeTimer, armed, visListener, cancelOn, revListener,
                   backInstalled, backNavInProgress, timers, runs, log>>

\* generateAfuUrlFast(zoneId, domain) is called
BuildZone(zoneId, domain) ==
    /\ alive
    /\ pure' = [fn |-> "zone", zoneId |-> zoneId, domain |-> domain, os |-> osVersionCached,
                r |-> generateAfuUrlFast(zoneId, domain)]
    /\ UNCHANGED <<appCfg, cfg, curUrl, env, osVersionCached, hist, cur, alive, navTarget,
                   visible, aeTimer, armed, visListener, cancelOn, revListener,
                   backInstalled, backNavInProgress, timers, runs, log>>

NextUrl ==
    \/ OsVersionResolved
    \/ \E target \in Targets : BuildDirect(target)
    \/ \E zoneId \in ZoneIds, domain \in Domains : BuildZone(zoneId, domain)

SpecUrl == InitUrl /\ [][NextUrl]_vars

----------------------------------------------------------------------------
(* resolveUrlFast on its own *)

\* a target of an exit table with the fields given
Target(zoneId, url, domain) == [obj |-> TRUE, zoneId |-> zoneId, url |-> url, domain |-> domain]

\* the targets handed to resolveUrlFast: none; a url, alone, with a zoneId, and
\* one new URL() rejects; a zoneId with its own domain, with a blank one, with a
\* malformed one, with none; an empty target
ResolveTargets ==
    { NoTab,
      Target(Undefined, TargetUrl, Undefined),
      Target(<<"55">>, TargetUrl, <<"ads.example">>),
      Target(Undefined, <<"http", "://">>, Undefined),
      Target(<<"55">>, Undefined, <<"own.example">>),
      Target(<<"55">>, Undefined, <<" ">>),
      Target(<<"55">>, Undefined, <<"bad host">>),
      Target(<<"55">>, Undefined, Undefined),
      Target(Undefined, Undefined, Undefined) }

\* the exit tables handed to resolveUrlFast: null, and tables whose global
\* domain is a host, blank, or malformed
ResolveTables ==
    {NullCfg} \cup { [res |-> "cfg", domain |-> d, exits |-> <<>>] :
                       d \in {<<"ads.example">>, <<" ">>, <<"bad host">>} }

\* the page once booted, its query being any choice of three parameters
InitResolve ==
    \E q \in {PickParts(QueryParts, m) : m \in SUBSET {1, 2, 3}} :
        boot(<<E(<<"domain">>, <<"ads.example">>)>>,
             <<OtherEntry, [PageEntry("none") EXCEPT !.url.query = q]>>, CalmEnv)

\* resolveUrlFast(ex, cfg) is called
Resolve(ex, c) ==
    /\ alive
    /\ pure' = [fn |-> "resolve", ex |-> ex, c |-> c,
                r |-> resolveUrlFast(ex, c, hist[cur].url)]
    /\ UNCHANGED <<appCfg, cfg, curUrl, env, osVersionCached, hist, cur, alive, navTarget,
                   visible, aeTimer, armed, visListener, cancelOn, revListener,
                   backInstalled, backNavInProgress, timers, runs, log>>

NextResolve ==
    \/ OsVersionResolved
    \/ \E ex \in ResolveTargets, c \in ResolveTables : Resolve(ex, c)

SpecResolve == InitResolve /\ [][NextResolve]_vars

----------------------------------------------------------------------------
(* The clean variant (assets/scripts/common.js), run next to the guarded one *)

\* pushBackStates(url, count) of the clean variant: every entry is pushed with
\* a null state
pushBackStatesClean(s, url, count, r) ==
    LET n           == Max(0, parseIntOr0(count))
        originalUrl == Loc(s)
        done        == IF env.refuseAt = 0 \/ env.refuseAt > n + 1 THEN n + 1
                       ELSE env.refuseAt - 1
        F[i \in 0..done] ==
            IF i = 0 THEN s
            ELSE IF i <= n THEN pushState(F[i - 1], "none", url)
            ELSE pushState(F[i - 1], "none", originalUrl)
    IN  [F[done] EXCEPT !.log = Append(s.log, Effect("push", r, "", <<>>, url, done))]

\* the body of initBack once the redirect-page URL is built: new URL(pageUrl)
\* may have thrown
initBackTo(s, c, r, page) ==
    IF ~ExitOf(c, "back").currentTab.obj THEN s
    ELSE IF page.kind = "throw" THEN [s EXCEPT !.exc = TRUE]
    ELSE pushBackStatesClean(s, page, backCount(c), r)

\* initBack(cfg): the page URL and the count are computed by the same
\* statements as in initBackFast; no popstate listener is installed
initBack(s, c, r) == initBackTo(s, c, r, backPageUrl(c, Loc(s)))

\* resolveUrl(ex, cfg), with generateAfuUrl, buildExitQS and
\* buildDirectUrlWithTracking: the same statements as resolveUrlFast and its
\* builders
resolveUrl(ex, c, loc) == resolveUrlFast(ex, c, loc)

\* the body of runExitCurrentTab once the target ex is resolved to url
currentTabExitClean(s0, c, name, withBack, ex, url, r) ==
    IF ~ex.obj THEN s0
    ELSE IF url.kind = "throw" THEN [s0 EXCEPT !.exc = TRUE]
    ELSE IF url.kind = "empty" THEN s0
    ELSE IF withBack
         THEN thenNavTimeout(initBack(syncMetric(s0, name, <<Or(ex.zoneId, ex.url)>>, r), c, r),
                             url, r)
         ELSE replaceTo(syncMetric(s0, name, <<Or(ex.zoneId, ex.url)>>, r), url, r)

\* runExitCurrentTab(cfg, name, withBack): the continuation after await runs
\* before any other event
runExitCurrentTab(s, c, name, withBack, src) ==
    currentTabExitClean(startRun(s, name, "single", withBack, src), c, name, withBack,
                        ExitOf(c, name).currentTab,
                        resolveUrl(ExitOf(c, name).currentTab, c, Loc(s)),
                        Len(s.runs) + 1)

\* if (withBack) await initBack(cfg)
backIfClean(s1, c, withBack, r) == IF withBack THEN initBack(s1, c, r) ELSE s1

\* if (ntUrl) openTab(ntUrl), not reached when initBack has thrown
openIfClean(s2, ntUrl, r) == IF s2.exc THEN s2 ELSE openIf(s2, ntUrl, r)

\* the body of runExitDualTabs once both targets are resolved
dualTabsExitClean(s0, c, name, withBack, ex, ctUrl, ntUrl, r) ==
    IF ~ex.obj THEN s0
    ELSE IF ctUrl.kind = "throw" \/ ntUrl.kind = "throw" THEN [s0 EXCEPT !.exc = TRUE]
    ELSE navTimeoutIf(
             openIfClean(backIfClean(syncMetric(s0, name,
                                                dualZones(ex.currentTab, ex.newTab, ctUrl, ntUrl),
                                                r),
                                     c, withBack, r),
                         ntUrl, r),
             ctUrl, r)

\* runExitDualTabs(cfg, name, withBack)
runExitDualTabs(s, c, name, withBack, src) ==
    dualTabsExitClean(startRun(s, name, "dual", withBack, src), c, name, withBack,
                      ExitOf(c, name),
                      resolveUrl(ExitOf(c, name).currentTab, c, Loc(s)),
                      resolveUrl(ExitOf(c, name).newTab, c, Loc(s)),
                      Len(s.runs) + 1)

\* run(cfg, name) of the clean variant
runClean(s, c, name, src) ==
    IF c.res # "cfg" THEN s
    ELSE IF ExitOf(c, name).newTab.obj
    THEN runExitDualTabs(s, c, name, TRUE, src)
    ELSE runExitCurrentTab(s, c, name, TRUE, src)

\* trigger() of the clean variant's initAutoexit
triggerClean(s, c, isVisible, isArmed) ==
    IF isVisible /\ isArmed
    THEN runExitCurrentTab(s, c, "autoexit", TRUE, "autoexit")
    ELSE s

\* a popstate event in the clean variant: the listener of initReverse is the
\* only one
popstateClean(s, st) ==
    IF revListener /\ st = "rev"
    THEN runExitCurrentTab(s, cfg, "reverse", FALSE, "reverse")
    ELSE s

\* The heap of the clean variant on the same page: boot() leaves the same
\* heap in both variants, and each event below advances both
CleanHeap == IF pure.fn = "clean" THEN pure.s ELSE Heap

\* a handler of the clean variant ends
FinishClean(s) ==
    /\ Len(s.runs) <= MaxRuns
    /\ pure' = [fn |-> "clean", s |-> [s EXCEPT !.exc = FALSE]]

\* LANDING_EXITS.run(name) is called on both variants
VariantRun(name) ==
    /\ alive /\ cfg.res = "cfg"
    /\ Finish(run(Heap, cfg, name, "api"))
    /\ FinishClean(runClean(CleanHeap, cfg, name, "api"))
    /\ UNCHANGED <<appCfg, cfg, curUrl, env, osVersionCached, alive, visible, aeTimer,
                   armed, visListener, cancelOn, revListener>>

\* 40 ms elapse: the oldest setTimeout(() => replaceTo(url), 40) callback of
\* each variant runs
VariantNavTimer ==
    /\ alive /\ (timers # <<>> \/ CleanHeap.timers # <<>>)
    /\ IF timers # <<>>
       THEN Finish(replaceTo([Heap EXCEPT !.timers = Tail(timers)], timers[1].url, timers[1].run))
       ELSE Commit(Heap)
    /\ LET m == CleanHeap
       IN  IF m.timers # <<>>
           THEN FinishClean(replaceTo([m EXCEPT !.timers = Tail(m.timers)],
                                      m.timers[1].url, m.timers[1].run))
           ELSE FinishClean(m)
    /\ UNCHANGED <<appCfg, cfg, curUrl, env, osVersionCached, alive, visible, aeTimer,
                   armed, visListener, cancelOn, revListener>>

\* trigger() runs in both variants: called by the autoexit timer's callback
\* once it has set armed (byTimer), or as the visibilitychange listener when the
\* page is hidden or shown
VariantTrigger(byTimer) ==
    /\ alive
    /\ IF byTimer THEN aeTimer = "pending" ELSE visListener
    /\ aeTimer' = IF byTimer THEN "fired" ELSE aeTimer
    /\ armed' = (byTimer \/ armed)
    /\ visible' = IF byTimer THEN visible ELSE ~visible
    /\ Finish(trigger(Heap, cfg, visible', armed'))
    /\ FinishClean(triggerClean(CleanHeap, cfg, visible', armed'))
    /\ UNCHANGED <<appCfg, cfg, curUrl, env, osVersionCached, alive,
                   visListener, cancelOn, revListener>>

\* a mousemove, click or scroll: cancel() runs in both variants
VariantInteraction(ev) ==
    /\ alive /\ ev \in cancelOn
    /\ cancelOn' = cancelOn \ {ev}
    /\ cancel
    /\ FinishClean(CleanHeap)
    /\ UNCHANGED <<appCfg, cfg, curUrl, env, osVersionCached, hist, cur, alive, navTarget,
                   visible, armed, revListener, backInstalled, backNavInProgress, timers,
                   runs, log>>

\* the visitor goes one entry back inside the document, in both variants
VariantBack ==
    /\ alive /\ cur > 1 /\ hist[cur - 1].doc = "this"
    /\ CleanHeap.cur > 1 /\ CleanHeap.hist[CleanHeap.cur - 1].doc = "this"
    /\ Finish(popstate([Heap EXCEPT !.cur = cur - 1], hist[cur - 1].st))
    /\ LET m == CleanHeap
       IN  FinishClean(popstateClean([m EXCEPT !.cur = m.cur - 1], m.hist[m.cur - 1].st))
    /\ UNCHANGED <<appCfg, cfg, curUrl, env, osVersionCached, alive, visible, aeTimer, armed,
                   visListener, cancelOn, revListener>>

\* a single-tab mainExit, a trap with one wait entry, reverse
CfgTrapOne ==
    << E(<<"domain">>, <<"ads.example">>),
       E(<<"mainExit", "zoneId">>, <<"55">>),
       E(<<"back", "zoneId">>, <<"7">>),
       E(<<"back", "count">>, <<"1">>),
       E(<<"reverse", "zoneId">>, <<"9">>) >>

\* a page with reverse and autoexit and no trap; a dual-tab page with a trap;
\* a single-tab page with a trap and reverse
VariantConfigs == {CfgSmall, CfgDual, CfgTrapOne}

InitVariant == \E a \in VariantConfigs : boot(a, FreshHist, CalmEnv)

NextVariant ==
    \/ \E name \in {"mainExit", "tabUnderClick", "autoexit"} : VariantRun(name)
    \/ VariantNavTimer
    \/ \E byTimer \in BOOLEAN : VariantTrigger(byTimer)
    \/ \E ev \in Events : VariantInteraction(ev)
    \/ VariantBack

SpecVariant == InitVariant /\ [][NextVariant]_vars

----------------------------------------------------------------------------
(* The config normalizer on its own *)

\* the keys a flat configuration may carry besides domain: the three patterns,
\* two keys for one field, an empty value, a name outside [a-zA-Z0-9]+, a field
\* no pattern has, and an exit called domain
NormParts ==
    << E(<<"mainExit", "zoneId">>, <<"55">>),
       E(<<"mainExit", "currentTab", "zoneId">>, <<"66">>),
       E(<<"mainExit", "currentTab", "url">>, TargetUrl),
       E(<<"mainExit", "newTab", "url">>, TargetUrl),
       E(<<"tabUnderClick", "zoneId">>, <<"57">>),
       E(<<"back", "count">>, <<"3">>),
       E(<<"back", "url">>, <<>>),
       E(<<"my-exit", "zoneId">>, <<"1">>),
       E(<<"promo", "currentTab", "domain">>, <<"x.example">>),
       E(<<"domain", "zoneId">>, <<"5">>) >>

Reverse(s) == [i \in 1..Len(s) |-> s[Len(s) + 1 - i]]

\* the domain entry of a flat configuration: set, empty or absent
DomainParts == { <<E(<<"domain">>, <<"ads.example">>)>>, <<E(<<"domain">>, <<>>)>>, <<>> }

\* flat configurations: domain first and the keys in the order of NormParts,
\* or the other way round
NormConfigs ==
    UNION { { d \o PickParts(NormParts, m), Reverse(d \o PickParts(NormParts, m)) } :
            d \in DomainParts, m \in SUBSET (1..Len(NormParts)) }

InitNorm == \E a \in NormConfigs : boot(a, FreshHist, CalmEnv)

\* a normalizer that works in place and deletes the entries it has read
appCfgAfterNormalize_consumed(a) == SelectSeq(a, LAMBDA e : e[1] = <<"domain">>)

\* the object appCfg once normalizeConfig(appCfg) has returned or thrown: the
\* call reads it (appCfg.domain, Object.entries(appCfg)) and assigns only to
\* cfg, cfg[name] and ex[tab], objects it created itself
appCfgAfterNormalize(a) == a

\* normalizeConfig(window.APP_CONFIG) is called
Normalize ==
    /\ pure.fn = "none"
    /\ pure' = [fn |-> "norm", r |-> normalizeConfig(appCfg)]
    /\ appCfg' = appCfgAfterNormalize(appCfg)
    /\ UNCHANGED <<cfg, curUrl, env, osVersionCached, hist, cur, alive, navTarget,
                   visible, aeTimer, armed, visListener, cancelOn, revListener,
                   backInstalled, backNavInProgress, timers, runs, log>>

\* normalizeConfig(window.APP_CONFIG) is called a second time on the same
\* object; first is what the first call returned
NormalizeAgain ==
    /\ pure.fn = "norm"
    /\ pure' = [fn |-> "norm2", r |-> normalizeConfig(appCfg), first |-> pure.r]
    /\ appCfg' = appCfgAfterNormalize(appCfg)
    /\ UNCHANGED <<cfg, curUrl, env, osVersionCached, hist, cur, alive, navTarget,
                   visible, aeTimer, armed, visListener, cancelOn, revListener,
                   backInstalled, backNavInProgress, timers, runs, log>>

NextNorm == Normalize \/ NormalizeAgain

SpecNorm == InitNorm /\ [][NextNorm]_vars

----------------------------------------------------------------------------
(* Properties *)

\* the number of runs started from src ("api", "autoexit", "reverse")
RunsFrom(src) == Cardinality({i \in 1..Len(runs) : runs[i].src = src})

\* a qualifying interaction (mousemove, click or scroll) has occurred on a page
\* that set autoexit up
Interacted == initAutoexit(cfg) /\ cancelOn # Events

\* C1: once a mousemove, click or scroll has occurred, no step starts a run of
\* the autoexit exit from the timer or from a visibility change, whatever the
\* later timer elapse and visibility changes.
C1_NoAutoexitAfterInteraction ==
    [][Interacted => RunsFrom("autoexit")' = RunsFrom("autoexit")]_vars

\* the interaction came before the timer elapsed: the timer is cleared for good
\* and no autoexit run has started, while the page is hidden and runs may start
C1_Witness ==
    /\ Interacted /\ aeTimer = "cleared" /\ ~visible /\ alive
    /\ RunsFrom("autoexit") = 0 /\ Len(runs) < MaxRuns

\* the page has booted with a reverse exit and nothing has happened since: the
\* entry initReverse tagged is the current one and the last one
Booted == revListener /\ runs = <<>> /\ cur = Len(hist) /\ hist[cur].st = "rev"

\* C2: after boot with a reverse exit that has a currentTab target, the first
\* back-navigation runs the reverse exit exactly once, and a second
\* back-navigation does not run it again.
C2_FirstBackRunsReverseOnce ==
    [][(Booted /\ cur' = cur - 1) => RunsFrom("reverse")' = 1]_vars

\* the effects of log from index i on
EffectsFrom(l, i) == {l[j] : j \in i..Len(l)}

\* the indices of the anchors of a trap of 3: three wait entries right below,
\* and the entry that was current at the arming below them
Anchor3 ==
    {k \in 5..Len(hist) : /\ hist[k].st = "anchor"
                          /\ \A j \in 1..3 : hist[k - j].st = "bk"
                          /\ hist[k - 4].st # "bk"}

\* a reload of the redirect page at url has been forced
ForcedReload(url) == Effect("replace", 0, "", <<>>, url, 0)

\* C4 as stated: after arming with count = 3 and starting on the anchor, three
\* consecutive back-navigations each land on a wait entry, and the fourth
\* forces a reload to the redirect page URL.
C4_FourthBackForcesReload ==
    [][\A k \in Anchor3 :
          /\ (cur \in (k - 2)..k /\ cur' = cur - 1) => hist'[cur'].st = "bk"
          /\ (cur = k - 3 /\ cur' = k - 4) =>
                 ForcedReload(hist[k - 1].url) \in EffectsFrom(log', Len(log) + 1)]_vars

\* C4, amended: after arming with count = 3 and starting on the anchor, three
\* consecutive back-navigations each land on a wait entry; a back-navigation
\* that lands on a wait entry forces a reload of the redirect page URL when none
\* has been forced on this page before and has no effect otherwise; the fourth
\* lands on the entry that was current at the arming and forces no reload of
\* the redirect page.
C4_FirstBackForcesReload ==
    [][\A k \in Anchor3 :
          /\ (cur \in (k - 2)..k /\ cur' = cur - 1) =>
                 /\ hist'[cur'].st = "bk" /\ hist' = hist /\ alive'
                 /\ log' = IF backNavInProgress THEN log
                           ELSE Append(log, ForcedReload(hist[k - 1].url))
                 /\ backNavInProgress'
          /\ (cur = k - 3 /\ cur' = k - 4) =>
                 ForcedReload(hist[k - 1].url) \notin EffectsFrom(log', Len(log) + 1)]_vars

\* four back-navigations from the anchor of a trap of 3 have been made: the
\* page is on the entry below the trap, one reload was forced
C4_Witness ==
    /\ alive /\ backNavInProgress
    /\ \E k \in Anchor3 :
          /\ cur = k - 4 /\ k = Len(hist)
          /\ Cardinality({i \in 1..Len(log) : log[i] = ForcedReload(hist[k - 1].url)}) = 1

\* the count the configuration gives the back exit, 10 when it gives none
ConfiguredCount ==
    LET v == appCfgGet(appCfg, <<"back", "count">>)
    IN  CASE v = Undefined -> 10
          [] v = <<"0">> -> 0
          [] v = <<"1">> -> 1
          [] v = <<"3">> -> 3

\* this step is a call of LANDING_EXITS.initBack(): it arms the trap
ArmStep == Len(runs') = Len(runs) + 1 /\ Last(runs').kind = "arm"

\* n wait entries at page and the anchor at the current URL are pushed after
\* the current entry, the anchor becoming current
TrapPushed(n, page) ==
    /\ hist' = SubSeq(hist, 1, cur)
                 \o [i \in 1..n |-> [st |-> "bk", url |-> page, doc |-> "this"]]
                 \o <<[st |-> "anchor", url |-> hist[cur].url, doc |-> "this"]>>
    /\ cur' = Len(hist')

\* C3: arming the trap when a back exit with a currentTab target exists and
\* count = n (10 when not configured) pushes exactly n wait entries that point
\* at the redirect-page URL, then one anchor entry at the page URL, which is
\* current afterwards; with no such back exit, arming pushes nothing.
C3_ArmingPushesTrap ==
    [][ArmStep =>
          IF ExitOf(cfg, "back").currentTab.obj
          THEN TrapPushed(ConfiguredCount, backPageUrl(cfg, hist[cur].url))
          ELSE hist' = hist /\ cur' = cur]_vars

\* a domain with something else than blanks in it
NonBlank(d) == d # Undefined /\ \E i \in 1..Len(d) : d[i] # " "

\* target t of the table resolves to a URL: it has a url, or a zoneId and a domain
Resolvable(t) ==
    t.obj /\ (Truthy(t.url) \/ (Truthy(t.zoneId) /\ NonBlank(Or(t.domain, cfg.domain))))

\* the effects of kind e that run r has produced
EffectsOf(r, e) == {i \in 1..Len(log) : log[i].run = r /\ log[i].e = e}

\* run r is a dual-tab run whose newTab target resolves and whose currentTab
\* target is absent or does not resolve
NewTabOnly(r) ==
    /\ runs[r].kind = "dual"
    /\ Resolvable(ExitOf(cfg, runs[r].name).newTab)
    /\ ~Resolvable(ExitOf(cfg, runs[r].name).currentTab)

\* C5: a dual-tab run with only a resolvable newTab target opens the secondary
\* tab exactly once and neither schedules nor performs a navigation of the
\* current tab.
C5_NewTabOnlyOpensOnce ==
    \A r \in 1..Len(runs) :
        NewTabOnly(r) =>
            /\ Cardinality(EffectsOf(r, "open")) = 1
            /\ EffectsOf(r, "timer") = {}
            /\ EffectsOf(r, "replace") = {}

\* such a run has opened its tab on a page whose currentTab target exists but
\* does not resolve, and the page is still there
C5_Witness ==
    /\ alive
    /\ \E r \in 1..Len(runs) :
          /\ NewTabOnly(r) /\ ExitOf(cfg, runs[r].name).currentTab.obj
          /\ EffectsOf(r, "open") # {}

\* this step starts a run of an exit neither target of which resolves
UnresolvableRunStep ==
    /\ Len(runs') = Len(runs) + 1
    /\ Last(runs').kind \in {"single", "dual"}
    /\ ~Resolvable(ExitOf(cfg, Last(runs').name).currentTab)
    /\ ~Resolvable(ExitOf(cfg, Last(runs').name).newTab)

\* C6: running an exit neither target of which resolves navigates nowhere,
\* opens no tab, emits no tracking event and leaves the session history as it
\* is, also when a back exit is configured.
C6_UnresolvableIsNoOp ==
    [][UnresolvableRunStep =>
          /\ log' = log /\ hist' = hist /\ cur' = cur
          /\ timers' = timers /\ navTarget' = navTarget]_vars

\* C7: every run of an exit whose currentTab target resolves performs the
\* navigation of the current tab or has scheduled it, also when the tracking
\* sink throws or a history push is refused during the arming.
C7_NavigationNeverBlocked ==
    \A r \in 1..Len(runs) :
        (runs[r].kind \in {"single", "dual"}
             /\ Resolvable(ExitOf(cfg, runs[r].name).currentTab))
        => (EffectsOf(r, "timer") # {} \/ EffectsOf(r, "replace") # {})

\* query q has a pair named k
Has(q, k) == \E i \in 1..Len(q) : q[i][1] = k

\* the value of the first pair named k of query q, "" when there is none
Val(q, k) ==
    IF Has(q, k) THEN q[CHOOSE i \in 1..Len(q) : q[i][1] = k /\ \A j \in 1..(i - 1) : q[j][1] # k][2]
    ELSE <<>>

\* the value of parameter k of the page URL, "" when absent
PageParam(k) == Val(curUrl.query, k)

\* a if it is not empty, else b
Else(a, b) == IF a # <<>> THEN a ELSE b

\* the query a direct target defines
TargetDefines(t) ==
    CASE t = TargetWithCost ->
             << <<"cost", <<"1">>>>, <<"currency", <<"gbp">>>>, <<"external_id", <<"t1">>>> >>
      [] t = <<"http", "://">> -> <<>>
      [] OTHER -> << <<"foo", <<"baz">>>> >>

ForceSetKeys == {"cost", "currency", "external_id", "creative_id", "ad_campaign_id"}

\* parts (1), (2) and (4) of C8 for the URL with query r built for target t
C8_KeysCostIds(t, r) ==
    /\ \A i \in 1..Len(TargetDefines(t)) :
          TargetDefines(t)[i][1] \notin ForceSetKeys =>
              Val(r, TargetDefines(t)[i][1]) = TargetDefines(t)[i][2]
    /\ Else(PageParam("cost"), PageParam("b")) # <<>> =>
          Val(r, "cost") = Else(PageParam("cost"), PageParam("b"))
    /\ PageParam("external_id") # <<>> => Val(r, "external_id") = PageParam("external_id")
    /\ PageParam("creative_id") # <<>> => Val(r, "creative_id") = PageParam("creative_id")
    /\ Else(PageParam("ad_campaign_id"), PageParam("var_2")) # <<>> =>
          Val(r, "ad_campaign_id") = Else(PageParam("ad_campaign_id"), PageParam("var_2"))

\* C8 as stated: in the URL built for a direct target, (1) a key the target
\* defines keeps the target's value unless it is force-set, (2) cost is the
\* snapshot cost, else the legacy b, (3) currency is usd when the target did
\* not define it and the target's value otherwise, (4) external_id, creative_id
\* and ad_campaign_id are overwritten from the snapshot when non-empty,
\* ad_campaign_id falling back to var_2.
C8_CurrencyUsdUnlessTarget ==
    (pure.fn = "direct" /\ pure.r.kind = "url") =>
        /\ C8_KeysCostIds(pure.target, pure.r.query)
        /\ Val(pure.r.query, "currency") =
               IF Has(TargetDefines(pure.target), "currency")
               THEN Val(TargetDefines(pure.target), "currency") ELSE <<"usd">>

\* C8, amended: for every target new URL() accepts, (1), (2) and (4) as stated,
\* and (3) currency is the target's value when the target defines it, else the
\* page's own currency parameter when that is non-empty, else usd.
C8_CurrencyTargetPageUsd ==
    (pure.fn = "direct" /\ pure.r.kind = "url") =>
        /\ C8_KeysCostIds(pure.target, pure.r.query)
        /\ Val(pure.r.query, "currency") =
               IF Has(TargetDefines(pure.target), "currency")
               THEN Val(TargetDefines(pure.target), "currency")
               ELSE Else(PageParam("currency"), <<"usd">>)

\* the page carries b, foo and currency=eur and the target https://x.com/y?foo=baz
\* defines no currency: the URL built carries foo=baz, cost=12 and currency=eur
C8_Witness ==
    /\ pure.fn = "direct" /\ pure.target = TargetUrl /\ pure.r.kind = "url"
    /\ PageParam("b") = <<"12">> /\ PageParam("cost") = <<>> /\ PageParam("foo") = <<"bar">>
    /\ Val(pure.r.query, "foo") = <<"baz">>
    /\ Val(pure.r.query, "cost") = <<"12">>
    /\ Val(pure.r.query, "currency") = <<"eur">>

\* the value of each tracking field of a zone URL built when the os version
\* was os
TrackingField(k, os) ==
    CASE k = "ymid" -> Else(PageParam("var_1"), PageParam("var"))
      [] k = "var" -> Else(PageParam("var_2"), PageParam("z"))
      [] k = "click_id" -> PageParam("s")
      [] k = "rhd" -> Else(PageParam("rhd"), <<"1">>)
      [] k = "os_version" -> os
      [] k = "btz" -> env.btz
      [] k = "bto" -> env.bto
      [] k = "cmeta" -> env.cmeta
      [] k = "ab2r" -> Else(PageParam("abtest"),
                            IF Has(appCfg, <<"abtest">>) THEN Val(appCfg, <<"abtest">>) ELSE <<>>)
      [] OTHER -> PageParam(k)

TrackingKeys ==
    {"ymid", "var", "var_3", "b", "campaignid", "click_id", "rhd", "os_version", "btz",
     "bto", "cmeta", "pz", "tb", "tb_reverse", "ae", "ab2r", "external_id", "creative_id",
     "ad_campaign_id", "cost"}

\* the host a domain without a scheme names, blanks and trailing slashes apart
BareHost(d) == IF \E i \in 1..Len(d) : d[i] \in {"http", "://"} THEN "" ELSE
               (CHOOSE h \in {d[i] : i \in 1..Len(d)} \cup {""} :
                    h \notin {" ", "/"} /\ (h = "" => \A i \in 1..Len(d) : d[i] \in {" ", "/"}))

\* C9: the URL built for a zone target with a non-empty zoneId is
\* https://<domain>/afu.php?<query>; its query has zoneid=<zoneId>, has each
\* tracking key exactly when that field's value is non-empty, with that value,
\* and has no pair with an empty value.
C9_ZoneUrlQuery ==
    (pure.fn = "zone" /\ pure.r.kind = "url") =>
        /\ BareHost(pure.domain) # "" =>
               pure.r.scheme = "https" /\ pure.r.host = BareHost(pure.domain)
        /\ pure.r.path = <<"/", "afu.php">>
        /\ Val(pure.r.query, "zoneid") = pure.zoneId
        /\ \A k \in TrackingKeys :
              /\ Has(pure.r.query, k) <=> TrackingField(k, pure.os) # <<>>
              /\ Val(pure.r.query, k) = TrackingField(k, pure.os)
        /\ \A i \in 1..Len(pure.r.query) :
              /\ pure.r.query[i][2] # <<>>
              /\ pure.r.query[i][1] \in TrackingKeys \cup {"zoneid"}
              /\ \A j \in 1..Len(pure.r.query) : pure.r.query[j][1] = pure.r.query[i][1] => j = i

\* a zone URL built for a bare host on a page whose snapshot has empty and
\* non-empty fields: creative_id= is on the page and not in the query, cost=5 is
C9_Witness ==
    /\ pure.fn = "zone" /\ pure.r.kind = "url" /\ pure.domain = <<"ads.example">>
    /\ Has(curUrl.query, "creative_id") /\ ~Has(pure.r.query, "creative_id")
    /\ env.cmeta = <<>> /\ ~Has(pure.r.query, "cmeta")
    /\ Val(pure.r.query, "cost") = <<"5">>
    /\ Val(pure.r.query, "zoneid") = <<"55">>

\* where the entry <<k, v>> of a flat configuration goes by the three key
\* patterns: kind "tab" (name, tab, field), "flat" (name, field) or "none"
KeyTarget(k, v) ==
    IF v = <<>> \/ v = Undefined \/ k = <<"domain">> \/ Len(k) \notin {2, 3} \/ ~IsAlnum(k[1])
    THEN [kind |-> "none", name |-> "", tab |-> "", field |-> ""]
    ELSE IF Len(k) = 3 /\ k[2] \in {"currentTab", "newTab"} /\ k[3] \in {"zoneId", "url"}
    THEN [kind |-> "tab", name |-> k[1], tab |-> k[2], field |-> k[3]]
    ELSE IF Len(k) = 2 /\ k[2] \in {"count", "timeToRedirect", "pageUrl"}
    THEN [kind |-> "flat", name |-> k[1], tab |-> "", field |-> k[2]]
    ELSE IF Len(k) = 2 /\ k[2] \in {"zoneId", "url"}
    THEN [kind |-> "tab", name |-> k[1],
          tab |-> IF k[1] = "tabUnderClick" THEN "newTab" ELSE "currentTab", field |-> k[2]]
    ELSE [kind |-> "none", name |-> "", tab |-> "", field |-> ""]

\* the entries of a that set target t
Setters(a, t) == {i \in 1..Len(a) : KeyTarget(a[i][1], a[i][2]) = t}

\* the value the last setter of t in a gives, Undefined when there is none
LastSet(a, t) ==
    IF Setters(a, t) = {} THEN Undefined
    ELSE a[CHOOSE i \in Setters(a, t) : \A j \in Setters(a, t) : j <= i][2]

TabTarget(n, tab, f) == [kind |-> "tab", name |-> n, tab |-> tab, field |-> f]

\* the tab target of exit n the three key patterns define from a
PatternTab(a, n, tab) ==
    [obj    |-> Setters(a, TabTarget(n, tab, "zoneId")) \cup Setters(a, TabTarget(n, tab, "url")) # {},
     zoneId |-> LastSet(a, TabTarget(n, tab, "zoneId")),
     url    |-> LastSet(a, TabTarget(n, tab, "url")),
     domain |-> IF Setters(a, TabTarget(n, tab, "zoneId")) # {}
                THEN Val(a, <<"domain">>) ELSE Undefined]

FlatTarget(n, f) == [kind |-> "flat", name |-> n, tab |-> "", field |-> f]

\* the exit table the three key patterns define from a
PatternTable(a) ==
    [n \in {KeyTarget(a[i][1], a[i][2]).name : i \in 1..Len(a)} \ {""} |->
        [obj            |-> TRUE,
         currentTab     |-> PatternTab(a, n, "currentTab"),
         newTab         |-> PatternTab(a, n, "newTab"),
         count          |-> LastSet(a, FlatTarget(n, "count")),
         timeToRedirect |-> LastSet(a, FlatTarget(n, "timeToRedirect")),
         pageUrl        |-> LastSet(a, FlatTarget(n, "pageUrl"))]]

\* C10: for every flat configuration with a non-empty domain, normalizeConfig
\* returns the exit table the three key patterns define: every tab target that
\* received a zoneId has the global domain, and empty values, the domain key
\* and keys matching no pattern create no entry.
C10_TableFollowsPatterns ==
    (pure.fn = "norm" /\ Val(appCfg, <<"domain">>) # <<>>) =>
        /\ pure.r.res = "cfg"
        /\ pure.r.domain = Val(appCfg, <<"domain">>)
        /\ pure.r.exits = PatternTable(appCfg)

\* the same for the configurations that name no exit domain
C10_ExceptExitNamedDomain ==
    (pure.fn = "norm" /\ Val(appCfg, <<"domain">>) # <<>>
         /\ "domain" \notin DOMAIN PatternTable(appCfg)) =>
        /\ pure.r.res = "cfg"
        /\ pure.r.domain = Val(appCfg, <<"domain">>)
        /\ pure.r.exits = PatternTable(appCfg)

HasExit(name) == cfg.res = "cfg" /\ name \in DOMAIN cfg.exits

DefinesNewTab(name) == HasExit(name) /\ cfg.exits[name].newTab.obj

Aliased(name) == name = "tabUnderClick" /\ ~HasExit("tabUnderClick")

MissingConfiguration ==
    \/ appCfg = Undefined
    \/ ~Has(appCfg, <<"domain">>)
    \/ Val(appCfg, <<"domain">>) = <<>>

\* C13: on a page whose configuration is absent or has no non-empty domain,
\* boot sets nothing up and nothing happens afterwards: no registry (no run, no
\* arming), no autoexit timer, no visibility, interaction or history listener,
\* no pushed entry, no tracking, no tab, no scheduled or pending navigation,
\* for the whole page lifetime.
C13_MissingConfigurationHaltsBoot ==
    MissingConfiguration =>
        /\ cfg.res = "null"
        /\ aeTimer = "none" /\ ~armed
        /\ ~visListener /\ cancelOn = {} /\ ~revListener /\ ~backInstalled
        /\ hist \in InitHists
        /\ runs = <<>> /\ log = <<>> /\ timers = <<>>
        /\ navTarget = UrlEmpty /\ ~backNavInProgress

\* a page whose configuration names exits but no domain, which the visitor has
\* left by a back-navigation
C13_Witness ==
    /\ MissingConfiguration
    /\ appCfg # Undefined /\ Has(appCfg, <<"autoexit", "zoneId">>)
    /\ Has(appCfg, <<"reverse", "zoneId">>)
    /\ ~alive /\ cur = 1

\* the number of effects of log that satisfy Test
CountEffects(Test(_)) == Cardinality({i \in 1..Len(log) : Test(log[i])})

\* a popstate listener of the back-trap was added / the back listener forced a
\* reload (a replace made outside any run)
IsListen(x) == x.e = "listen"

IsForcedReload(x) == x.e = "replace" /\ x.run = 0

IsPush(x) == x.e = "push"

\* this step is a traversal inside the document (the current entry changes
\* and nothing is pushed) that lands on a wait entry or on an entry whose path
\* is the redirect page's
LandsOnTrap ==
    /\ alive' /\ cur' # cur /\ hist' = hist
    /\ CountEffects(IsPush)' = CountEffects(IsPush)
    /\ hist[cur'].st = "bk" \/ isBackPath(hist[cur'].url.path)

\* C14: however many times the trap is armed, one popstate listener of the
\* back-trap is added per page lifetime at most; the reload of the current
\* location is forced at most once; and a traversal that lands on a wait entry
\* or on the redirect-page path once the latch is set forces nothing: the latch
\* stays set, no reload is added, and unless the entry is the one tagged __rev
\* (whose own listener runs the reverse exit) no effect at all is produced.
C14_ForcedReloadLatch ==
    /\ [](CountEffects(IsListen) <= 1)
    /\ [](CountEffects(IsForcedReload) <= 1)
    /\ [][(backNavInProgress /\ LandsOnTrap) =>
             /\ backNavInProgress'
             /\ CountEffects(IsForcedReload)' = CountEffects(IsForcedReload)
             /\ hist[cur'].st # "rev" =>
                    /\ log' = log /\ timers' = timers
                    /\ runs' = runs /\ navTarget' = navTarget]_vars

\* the trap was armed twice, one listener was added, one reload was forced, and
\* a second back-navigation has landed on a wait entry
C14_Witness ==
    /\ alive /\ backNavInProgress
    /\ CountEffects(IsPush) = 2
    /\ CountEffects(IsListen) = 1
    /\ CountEffects(IsForcedReload) = 1
    /\ cur < Len(hist) /\ hist[cur].st = "bk" /\ hist[cur + 1].st = "bk"

\* the navigation effects of run r: the scheduling of the deferred replace and
\* the replace itself
NavEffectsOf(r) == EffectsOf(r, "timer") \cup EffectsOf(r, "replace")

\* C15: within one exit run the tracking emission is attempted before the
\* navigation is scheduled and the secondary tab is opened before the deferred
\* navigation: every tracking call and every tab open of a run precedes its
\* timer and its replace; a run that has scheduled or made its navigation has
\* made its tracking call (when a sink is there to call) and has opened its
\* tab (when it is a dual-tab run whose newTab target resolves).
C15_TrackThenOpenThenNavigate ==
    \A r \in 1..Len(runs) :
        \A i \in NavEffectsOf(r) :
            /\ \A j \in EffectsOf(r, "track") \cup EffectsOf(r, "open") : j < i
            /\ env.sink # "absent" => EffectsOf(r, "track") # {}
            /\ (runs[r].kind = "dual" /\ Resolvable(ExitOf(cfg, runs[r].name).newTab))
                   => EffectsOf(r, "open") # {}

\* a dual-tab run has made its tracking calls, opened its tab, scheduled its
\* navigation, and the navigation has been made
C15_Witness ==
    \E r \in 1..Len(runs) :
        /\ runs[r].kind = "dual"
        /\ Cardinality(EffectsOf(r, "track")) = 2
        /\ EffectsOf(r, "open") # {}
        /\ EffectsOf(r, "timer") # {}
        /\ EffectsOf(r, "replace") # {}

\* the indices of the effects this step adds to the log
NewEffects == (Len(log) + 1)..Len(log')

\* this step is a call that starts run number Len(runs')
StartsRun == Len(runs') = Len(runs) + 1

AutoexitRuns ==
    /\ RunsFrom("autoexit")' = RunsFrom("autoexit") + 1
    /\ runs' = Append(runs, [name |-> "autoexit", kind |-> "single",
                             withBack |-> TRUE, src |-> "autoexit"])

\* C17: the autoexit machinery starts a run of the autoexit exit only when the
\* timer has elapsed and the page is visible at that moment; and when the timer
\* has elapsed while the page was hidden and no mousemove, click or scroll has
\* occurred, the visibility change that shows the page runs the exit, with the
\* back-trap.
C17_AutoexitFiringCondition ==
    /\ [][RunsFrom("autoexit")' # RunsFrom("autoexit") =>
             (armed' /\ visible' /\ AutoexitRuns)]_vars
    /\ [][(armed /\ ~visible /\ cancelOn = Events /\ visible') => AutoexitRuns]_vars

\* the timer has elapsed while the page was hidden: nothing has run, no
\* interaction has occurred, and the page can still be shown
C17_Witness ==
    /\ alive /\ armed /\ aeTimer = "fired" /\ ~visible
    /\ cancelOn = Events /\ visListener
    /\ RunsFrom("autoexit") = 0 /\ Len(runs) < MaxRuns

\* the armings made by runs the autoexit machinery started
AutoexitArmings ==
    {i \in 1..Len(log) : log[i].e = "push" /\ runs[log[i].run].src = "autoexit"}

\* C18: over any sequence of timer elapse and visibility changes in one page
\* lifetime the autoexit machinery runs the autoexit exit at most once, and
\* arms the back-trap at most once: fired is terminal.
C18_AutoexitFiresAtMostOnce ==
    /\ RunsFrom("autoexit") <= 1
    /\ Cardinality(AutoexitArmings) <= 1

\* C19: the run of the reverse exit the history listener starts on the tagged
\* entry does not arm the trap, also when a back exit with a currentTab target
\* is configured: it is a single-tab run without the back-trap, its step pushes
\* no entry (the session history is unchanged) and adds no back listener, the
\* run never has a push or listen effect, and the navigation it makes replaces
\* the current entry only.
C19_ReverseDoesNotArm ==
    /\ [][RunsFrom("reverse")' # RunsFrom("reverse") =>
             /\ runs' = Append(runs, [name |-> "reverse", kind |-> "single",
                                      withBack |-> FALSE, src |-> "reverse"])
             /\ hist' = hist
             /\ backInstalled' = backInstalled
             /\ \A i \in NewEffects : log'[i].e \notin {"push", "listen"}]_vars
    /\ [](\A r \in 1..Len(runs) :
             runs[r].src = "reverse" =>
                 EffectsOf(r, "push") = {} /\ EffectsOf(r, "listen") = {})
    /\ [][(alive /\ ~alive' /\ cur' = cur) =>
             /\ Len(hist') = Len(hist)
             /\ \A i \in 1..Len(hist) : i # cur => hist'[i] = hist[i]]_vars

\* the reverse exit has run and replaced the location on a page that has a back
\* exit with a currentTab target, and the trap was never armed
C19_Witness ==
    /\ ExitOf(cfg, "back").currentTab.obj
    /\ ~backInstalled
    /\ Len(hist) = 3 /\ cur = 3 /\ ~alive
    /\ \E r \in 1..Len(runs) : runs[r].src = "reverse" /\ EffectsOf(r, "replace") # {}

\* C20: in a single-tab exit whose currentTab target resolves, with or without
\* the back-trap, the replace of the location is not made in the step that
\* starts the run and emits its tracking event: it is made later, by the timer
\* the run scheduled, and it adds no history entry.
C20_SingleTabNavigationDeferred ==
    [][\A i \in NewEffects :
          (log'[i].e = "replace" /\ log'[i].run # 0 /\ runs'[log'[i].run].kind = "single") =>
              /\ ~StartsRun
              /\ EffectsOf(log'[i].run, "timer") # {}
              /\ hist' = hist]_vars

\* the exitZoneId values a dual-tab run of exit name owes the sink: one for
\* each target that resolves, currentTab first
OwedZones(name) ==
    LET ct == ExitOf(cfg, name).currentTab
        nt == ExitOf(cfg, name).newTab
    IN  (IF Resolvable(ct) THEN <<Or(ct.zoneId, ct.url)>> ELSE <<>>)
        \o (IF Resolvable(nt) THEN <<Or(nt.zoneId, nt.url)>> ELSE <<>>)

\* the exitZoneId values of the tracking calls run r has attempted, in order
TrackedZones(r) ==
    LET F[i \in 0..Len(log)] ==
            IF i = 0 THEN <<>>
            ELSE IF log[i].e = "track" /\ log[i].run = r THEN Append(F[i - 1], log[i].zone)
            ELSE F[i - 1]
    IN  F[Len(log)]

\* C21: when a tracking sink is there, a dual-tab run attempts one call of it
\* for each target that resolved and none for a target that did not, whether
\* the sink returns or throws.
C21_DualTrackingPerResolvedTarget ==
    \A r \in 1..Len(runs) :
        (runs[r].kind = "dual" /\ env.sink # "absent") =>
            TrackedZones(r) = OwedZones(runs[r].name)

\* parameter i of the page URL is on the URL with query r built for target t,
\* with the page's value when t does not define its key
PassedThrough(i, t, r) ==
    /\ Has(r, curUrl.query[i][1])
    /\ ~Has(TargetDefines(t), curUrl.query[i][1]) =>
           Val(r, curUrl.query[i][1]) = curUrl.query[i][2]

\* C22: for every page query and every target new URL() accepts, every
\* parameter of the page URL is on the built direct URL, with the page's value
\* when the target did not define its key.
C22_PassthroughComplete ==
    (pure.fn = "direct" /\ pure.r.kind = "url") =>
        \A i \in 1..Len(curUrl.query) : PassedThrough(i, pure.target, pure.r.query)

\* the same for the page parameters whose value is not empty
C22_NonEmptyPassedThrough ==
    (pure.fn = "direct" /\ pure.r.kind = "url") =>
        \A i \in 1..Len(curUrl.query) :
            curUrl.query[i][2] # <<>> => PassedThrough(i, pure.target, pure.r.query)

\* the domain available to target ex in table c: the target's own when it is
\* set and not blank, else the table's global one when that is, else none ("")
AvailableDomain(ex, c) ==
    IF NonBlank(ex.domain) THEN ex.domain
    ELSE IF NonBlank(c.domain) THEN c.domain
    ELSE <<>>

\* r is the target's url in direct-passthrough mode: its host and path, or the
\* string itself when it does not parse
DirectResult(r, ex, loc) ==
    LET u == parseUrl(String(ex.url), loc, TRUE)
    IN  \/ r.kind = "raw" /\ r.raw = String(ex.url)
        \/ r.kind = "url" /\ u.kind = "url" /\ r.host = u.host /\ r.path = u.path

\* r is the zone URL of zoneId under domain d
ZoneResult(r, zoneId, d) ==
    LET u == parseUrl(<<"http", "s", "://">> \o trim(d) \o <<"/", "afu.php">>, UrlEmpty, FALSE)
    IN  /\ r.kind = "url" /\ u.kind = "url"
        /\ r.host = u.host /\ r.path = u.path
        /\ spGet(r.query, "zoneid") = zoneId

\* C23: resolveUrlFast uses the direct-passthrough mode whenever the target's
\* url is set, also when a zoneId is set too; otherwise it composes the zone
\* URL when the target has a zoneId and a domain is available from the target
\* or, failing that, from the table; otherwise it returns the empty result. The
\* result is a destination exactly in the first two cases.
C23_ResolveDecision ==
    pure.fn = "resolve" =>
        IF pure.ex.obj /\ Truthy(pure.ex.url)
        THEN DirectResult(pure.r, pure.ex, hist[cur].url)
        ELSE IF pure.ex.obj /\ Truthy(pure.ex.zoneId) /\ AvailableDomain(pure.ex, pure.c) # <<>>
        THEN ZoneResult(pure.r, pure.ex.zoneId, AvailableDomain(pure.ex, pure.c))
        ELSE pure.r = UrlEmpty

\* the same when no domain is malformed and the target has no blank domain of
\* its own
C23_ExceptMalformedDomain ==
    (pure.fn = "resolve"
        /\ pure.ex.domain \notin {<<" ">>, <<"bad host">>}
        /\ (pure.ex.domain = Undefined => pure.c.domain # <<"bad host">>))
    => C23_ResolveDecision

\* the observable effects of log l, in order: tracking events, tab opens,
\* history pushes and location replaces, without the bookkeeping of the run
\* they belong to
Observable(l) ==
    LET seen == SelectSeq(l, LAMBDA x : x.e \in {"track", "open", "push", "replace"})
    IN  [i \in 1..Len(seen) |->
            [e |-> seen[i].e, name |-> seen[i].name, zone |-> seen[i].zone,
             url |-> seen[i].url, n |-> seen[i].n]]

\* C24: for every configuration and every sequence of events (run calls, timer
\* elapse, interactions, visibility changes, back-navigations), the sequence of
\* observable effects of the clean variant is the one the guarded variant
\* produces for the same configuration and events.
C24_VariantRefinement == Observable(CleanHeap.log) = Observable(log)

\* the clean variant has run an exit the guarded variant dispatches otherwise:
\* tabUnderClick on a table without it, or a dual-tab exit on a table with a trap
CleanRanOtherwise ==
    \E r \in 1..Len(CleanHeap.runs) :
        \/ CleanHeap.runs[r].name = "tabUnderClick" /\ ~ExitOf(cfg, "tabUnderClick").obj
        \/ CleanHeap.runs[r].kind = "dual" /\ ExitOf(cfg, "back").currentTab.obj

\* the variants agree as long as run is not called with the tabUnderClick
\* alias, no dual-tab exit arms a trap, and the guarded variant has not forced
\* a reload on a trap entry
C24_AgreeOnCommonPaths ==
    (~CleanRanOtherwise /\ CountEffects(IsForcedReload) = 0) => C24_VariantRefinement

====
